---- MODULE Spec2Model ----
(***************************************************************************)
(* VodHunter: the live-archive ingest pipeline.                            *)
(*                                                                         *)
(* Spec models one worker driving IngestSession.run over a                 *)
(* LiveArchiveVODSource against the VectorStore, with the Twitch platform  *)
(* as environment, cooperative stop, process crashes and the creation of   *)
(* a new follower by the supervisor.  Time is counted in whole seconds of  *)
(* archive audio.                                                          *)
(***************************************************************************)
EXTENDS Integers, Sequences, FiniteSets, TLC

(* ---------------------------------------------------------------- bounds *)
NumVods == 2
MaxDuration == 3
MaxRestarts == 1
MaxArchiveChanges == 1
MaxSwitches == 2
MaxWorkers == 2
MaxSessions == 1
MaxCalls == 3
MaxSearches == 1
MaxStoreLen == 2
MaxQueryLen == 2
MaxQueryRows == 3
MaxNeighbors == 2
MaxFingerprintId == 3
MaxQueryHalf == 2
MaxTextLen == 6
MaxRows == 3

(* ------------------------------------------- configuration of the follower *)
\* LiveArchiveVODSource.__init__ parameters, instantiated small.
chunk_seconds == 2
lag_seconds == 1
finalize_checks == 2

\* AlignmentConfig, instantiated small: min_vote_ratio is the fraction num / den.
min_vote_count == 2
min_vote_ratio_num == 3
min_vote_ratio_den == 4

\* VectorMatcher.__init__ parameter, instantiated small.
top_k == 2

\* Python's None for an optional integer.
None == -1

Vods == 1..NumVods

Min(a, b) == IF a < b THEN a ELSE b
Max(a, b) == IF a > b THEN a ELSE b

VARIABLES
    plat_live,      \* platform: is the streamer live
    plat_vod,       \* platform: id of the latest archive listed (0: none listed)
    plat_dur,       \* platform: duration of each archive, in seconds
    plat_changes,   \* platform: how often the latest archive has changed
    db,             \* metadata.db: videos, live_ingest_state, fingerprints
    vector_file,    \* vectors.npy: one row per appended embedding
    id_file,        \* ids.npy: one fingerprint id per appended embedding
    src,            \* the LiveArchiveVODSource object of the running session
    running,        \* IngestSession._running
    pc,             \* position of the worker inside IngestSession.run
    chunk,          \* run(): local variable chunk
    timestamps,     \* run(): local variable timestamps
    embeddings,     \* run(): local variable embeddings
    ids,            \* run(): local variable ids
    stage,          \* how far the last returned window got through the pipeline
    restarts,       \* followers created after the first one
    refused,        \* next_chunk() was called on the source after it had finished
    quiet_refreshes, \* refreshes of this follower, up to the last one, that each
                    \* reported not live and no growth (capped at finalize_checks)
    media_url,      \* the follower's _media_url: "None" or "resolved"
    extraction,     \* what the last call of _extract_chunk did
    last_end,       \* per archive: end of the chunk this follower returned last, None before
    came_back,      \* this follower returned a chunk of an archive it had left for another
    reported,       \* duration_seconds of the latest refresh that saw an archive
    last_offset,    \* per archive: offset of the chunk returned last, None before the first
    first_chunk,    \* "pending": the follower returned no chunk yet; "this": chunk is its first
    assumed,        \* the embedder saw every second of every chunk, no crash inside append
    status,         \* MonitorManager._status: state, streamer, last_error
    thread,         \* MonitorManager._thread: the worker it refers to, 0 for None
    stop_event,     \* MonitorManager._stop_event
    active_session, \* MonitorManager._active_session: <<worker, number>> of the session
    spawned,        \* worker threads created so far
    api,            \* the API call in progress: position and locals of stop()
    calls,          \* start() and stop() calls made so far
    stopped,        \* the API call that returned last was a stop() returning True
    search_pc,      \* position of a search request inside search_upload; busy: rejected
    searches,       \* search requests finished so far
    query,          \* a search request inside search_upload and search_file: position,
                    \* files on disk, locals and outcome
    helix,          \* a TwitchMonitor call: the Helix answer it reads and what it returns
    w_pc,           \* per worker thread: position inside _run_loop and IngestSession.run
    w_src,          \* per worker thread: the source of its session
    w_running,      \* per worker thread: IngestSession._running of its session
    w_session,      \* per worker thread: sessions it has built
    w_chunk,        \* per worker thread: run()'s local variable chunk
    w_ids,          \* per worker thread: run()'s local variable ids
    w_loaded,       \* per worker thread: append_vectors' existing_vecs and existing_ids
    w_first         \* per worker thread: as first_chunk, for the worker's session

storeVars == <<db, vector_file, id_file>>
platVars == <<plat_live, plat_vod, plat_dur, plat_changes>>
sessVars == <<src, running, pc, chunk, timestamps, embeddings, ids, stage>>
histVars ==
    <<restarts, refused, quiet_refreshes, media_url, extraction, last_end, came_back,
      reported, last_offset, first_chunk, assumed>>
monVars == <<status, thread, stop_event, active_session>>
apiVars == <<spawned, api, calls, stopped>>
searchVars == <<search_pc, searches, query, helix>>
workerVars == <<w_pc, w_src, w_running, w_session, w_chunk, w_ids, w_loaded, w_first>>
supVars == <<monVars, apiVars, searchVars, workerVars>>
vars == <<platVars, storeVars, sessVars, histVars, supVars>>

(* ------------------------------------------------------------ VectorStore *)
NoRow ==
    [present |-> FALSE, video_id |-> 0,
     last_ingested_seconds |-> 0, last_seen_duration_seconds |-> 0]

EmptyDb ==
    [videos |-> <<>>,
     live_ingest_state |-> [v \in Vods |-> NoRow],
     fingerprints |-> <<>>]

\* f"https://www.twitch.tv/videos/{vod_id.strip()}": the prefix and the id.
canonical_vod_url(vod) == <<"https://www.twitch.tv/videos/", vod>>

\* A lookup by URL that finds no row.
get_video_by_url_missing(d, url) == 0

\* SELECT ... WHERE url = ? LIMIT 1: the row with the least id, 0 when there is none.
get_video_by_url(d, url) ==
    LET hits == {i \in 1..Len(d.videos) : d.videos[i].url = url}
    IN IF hits = {} THEN 0 ELSE CHOOSE i \in hits : \A j \in hits : i <= j

create_video(d, url, processed) ==
    [d EXCEPT !.videos = Append(@, [url |-> url, processed |-> processed])]

mark_video_processed(d, video_id, processed) ==
    IF video_id \in 1..Len(d.videos)
    THEN [d EXCEPT !.videos[video_id].processed = processed]
    ELSE d

\* A lookup that finds no row.
get_live_ingest_state_missing(d, vod) == NoRow

get_live_ingest_state(d, vod) == d.live_ingest_state[vod]

upsert_live_ingest_state(d, vod, video_id, last_ingested, last_seen) ==
    [d EXCEPT !.live_ingest_state[vod] =
        [present |-> TRUE, video_id |-> video_id,
         last_ingested_seconds |-> last_ingested,
         last_seen_duration_seconds |-> last_seen]]

\* id of the fingerprint row (video_id, ts), 0 when there is none.
fingerprint_id(fps, video_id, ts) ==
    LET hits == {i \in 1..Len(fps) : fps[i] = <<video_id, ts>>}
    IN IF hits = {} THEN 0 ELSE CHOOSE i \in hits : TRUE

\* A plain INSERT per timestamp.
RECURSIVE store_rows_inserting(_, _, _, _)
store_rows_inserting(fps, video_id, ts, out) ==
    IF ts = <<>> THEN [fingerprints |-> fps, ids |-> out]
    ELSE store_rows_inserting(Append(fps, <<video_id, Head(ts)>>), video_id, Tail(ts),
                              Append(out, Len(fps) + 1))

\* INSERT OR IGNORE per timestamp, in input order; the new or the existing id.
RECURSIVE store_rows(_, _, _, _)
store_rows(fps, video_id, ts, out) ==
    IF ts = <<>> THEN [fingerprints |-> fps, ids |-> out]
    ELSE LET old == fingerprint_id(fps, video_id, Head(ts))
         IN IF old = 0
            THEN store_rows(Append(fps, <<video_id, Head(ts)>>), video_id, Tail(ts),
                            Append(out, Len(fps) + 1))
            ELSE store_rows(fps, video_id, Tail(ts), Append(out, old))

store_fingerprints(d, video_id, ts) ==
    LET r == store_rows(d.fingerprints, video_id, ts, <<>>)
    IN [d |-> [d EXCEPT !.fingerprints = r.fingerprints], ids |-> r.ids]

\* An append that does not load the existing files.
append_vectors_overwrite(vf, idf, embs, new_ids) ==
    IF embs = <<>> THEN [vector_file |-> vf, id_file |-> idf]
    ELSE [vector_file |-> embs, id_file |-> new_ids]

\* append_vectors: the contents of both files once both np.save calls have returned.
\* A file that was never saved is the empty sequence.
append_vectors(vf, idf, embs, new_ids) ==
    IF embs = <<>> THEN [vector_file |-> vf, id_file |-> idf]
    ELSE IF vf # <<>> /\ idf # <<>>
    THEN [vector_file |-> vf \o embs, id_file |-> idf \o new_ids]
    ELSE [vector_file |-> embs, id_file |-> new_ids]

(* --------------------------------------------------- LiveArchiveVODSource *)
NewSource ==
    [video_id |-> 0, vod_platform_id |-> 0, ingest_cursor_seconds |-> 0,
     finished |-> FALSE, started |-> FALSE,
     last_seen_duration_seconds |-> 0, last_is_live |-> "None",
     no_growth_checks |-> 0, pending_commit_end_seconds |-> None]

\* No call of _extract_chunk yet.
NoExtraction == [attempts |-> 0, resolves |-> 0, reresolves |-> 0, raised |-> FALSE]

\* _resolve_media_url: the cached URL is returned while it is less than 60 seconds old
\* (fresh); else yt-dlp runs and either gives a URL, which is cached, or the call raises.
resolve_media_url(m, fresh, ytdlp_ok) ==
    IF m = "resolved" /\ fresh THEN [media_url |-> m, ran |-> 0, raised |-> FALSE]
    ELSE IF ytdlp_ok THEN [media_url |-> "resolved", ran |-> 1, raised |-> FALSE]
    ELSE [media_url |-> m, ran |-> 1, raised |-> TRUE]

\* _extract_chunk after ffmpeg has run `attempts` times, the last time with success:
\* a missing or empty output file raises.
extracted(m, attempts, resolves, reresolves, file_ok) ==
    [media_url |-> m, attempts |-> attempts, resolves |-> resolves,
     reresolves |-> reresolves, raised |-> ~file_ok]

\* _extract_chunk raises with the cached URL m.
extract_raised(m, attempts, resolves, reresolves) ==
    [media_url |-> m, attempts |-> attempts, resolves |-> resolves,
     reresolves |-> reresolves, raised |-> TRUE]

\* A retry that runs ffmpeg once more when its second run has failed too.
retry_extraction_twice(r2, resolves, ffmpeg_ok, file_ok) ==
    IF r2.raised THEN extract_raised("None", 1, resolves + r2.ran, r2.ran)
    ELSE IF ffmpeg_ok THEN extracted(r2.media_url, 2, resolves + r2.ran, r2.ran, file_ok)
    ELSE extracted(r2.media_url, 3, resolves + r2.ran, r2.ran, file_ok)

\* _extract_chunk after the first ffmpeg run has failed: the cached URL has been
\* dropped, r2 is the result of resolving again, and ffmpeg runs a second time.
retry_extraction(r2, resolves, ffmpeg_ok, file_ok) ==
    IF r2.raised THEN extract_raised("None", 1, resolves + r2.ran, r2.ran)
    ELSE IF ffmpeg_ok THEN extracted(r2.media_url, 2, resolves + r2.ran, r2.ran, file_ok)
    ELSE extract_raised(r2.media_url, 2, resolves + r2.ran, r2.ran)

\* _extract_chunk once the URL has been resolved (r1) and ffmpeg has run once.
first_extraction(r1, ffmpeg_ok, ytdlp_again, ffmpeg_again, file_ok) ==
    IF r1.raised THEN extract_raised(r1.media_url, 0, r1.ran, 0)
    ELSE IF ffmpeg_ok THEN extracted(r1.media_url, 1, r1.ran, 0, file_ok)
    ELSE retry_extraction(resolve_media_url("None", FALSE, ytdlp_again), r1.ran,
                          ffmpeg_again, file_ok)

\* _extract_chunk with the cached URL m; the other arguments are the outcomes of the
\* external calls, in the order in which the code makes them.
extract_chunk(m, fresh, ytdlp_ok, ffmpeg_ok, ytdlp_again, ffmpeg_again, file_ok) ==
    first_extraction(resolve_media_url(m, fresh, ytdlp_ok), ffmpeg_ok, ytdlp_again,
                     ffmpeg_again, file_ok)

save_ingest_state(s, d) ==
    IF s.vod_platform_id = 0 \/ s.video_id = 0 THEN d
    ELSE upsert_live_ingest_state(d, s.vod_platform_id, s.video_id,
                                  s.ingest_cursor_seconds, s.last_seen_duration_seconds)

\* The object and the store after a step of the follower that ends with a save.
saved(s, d) == [s |-> s, d |-> save_ingest_state(s, d)]

\* The pending window is dropped: the cursor stays and nothing is saved.
commit_pending_progress_dropped(s, d) ==
    [s |-> [s EXCEPT !.pending_commit_end_seconds = None], d |-> d]

commit_pending_progress(s, d) ==
    IF s.pending_commit_end_seconds = None THEN [s |-> s, d |-> d]
    ELSE IF s.vod_platform_id = 0 \/ s.video_id = 0 THEN [s |-> s, d |-> d]
    ELSE saved([s EXCEPT !.ingest_cursor_seconds = s.pending_commit_end_seconds,
                         !.pending_commit_end_seconds = None], d)

\* _switch_to_vod: the Video row of the archive's URL, created when there is none,
\* else marked unprocessed.
video_row_for(d, url) ==
    IF get_video_by_url(d, url) = 0
    THEN [d |-> create_video(d, url, FALSE), video_id |-> Len(d.videos) + 1]
    ELSE [d |-> mark_video_processed(d, get_video_by_url(d, url), FALSE),
          video_id |-> get_video_by_url(d, url)]

\* A switch that adopts the duration seen and not the cursor.
adopt_ingest_state_seen_only(s, state) ==
    IF ~state.present
    THEN [s EXCEPT !.ingest_cursor_seconds = 0]
    ELSE [s EXCEPT !.ingest_cursor_seconds = 0,
                   !.last_seen_duration_seconds = state.last_seen_duration_seconds]

\* _switch_to_vod: adopt the persisted state of the archive when there is a row;
\* without one only the cursor is reset.
adopt_ingest_state(s, state) ==
    IF ~state.present
    THEN [s EXCEPT !.ingest_cursor_seconds = 0]
    ELSE [s EXCEPT !.ingest_cursor_seconds = state.last_ingested_seconds,
                   !.last_seen_duration_seconds = state.last_seen_duration_seconds]

\* _switch_to_vod once the Video row v is known.
switch_with_video(s, v, vod) ==
    [s |-> [adopt_ingest_state([s EXCEPT !.vod_platform_id = vod,
                                         !.video_id = v.video_id],
                               get_live_ingest_state(v.d, vod))
               EXCEPT !.pending_commit_end_seconds = None, !.no_growth_checks = 0],
     d |-> v.d]

switch_to_vod(s, d, vod) ==
    switch_with_video(s, video_row_for(d, canonical_vod_url(vod)), vod)

\* _refresh_state: self._last_is_live = self.twitch_monitor.is_live(self.streamer).
polled(s, live) == [s EXCEPT !.last_is_live = IF live THEN "True" ELSE "False"]

\* _refresh_state: a longer duration is recorded, else an offline poll counts as one
\* without growth.
observe_duration(s, live, dur) ==
    IF dur > s.last_seen_duration_seconds
    THEN [s EXCEPT !.last_seen_duration_seconds = dur, !.no_growth_checks = 0]
    ELSE IF ~live THEN [s EXCEPT !.no_growth_checks = @ + 1]
    ELSE s

\* _refresh_state: does the answer dur count as growth for the follower, which
\* compares it with the duration it holds once it has switched to the archive vod.
grew(s, d, vod, dur) ==
    /\ vod # 0
    /\ dur > (IF s.vod_platform_id # vod THEN switch_to_vod(s, d, vod).s
              ELSE s).last_seen_duration_seconds

\* The number of refreshes in a row, up to this one, that reported the streamer not
\* live and no growth; q is the number before this call of next_chunk() or start().
quiet_after(q, s, d, due, live, vod, dur) ==
    IF ~due \/ ~s.started \/ s.finished THEN q
    ELSE IF live \/ grew(s, d, vod, dur) THEN 0
    ELSE Min(q + 1, finalize_checks)

\* _refresh_state after the switch, if any: the duration, then the save.
refresh_latest(sw, live, dur) == saved(observe_duration(sw.s, live, dur), sw.d)

\* _refresh_state once the poll is due: live, vod and dur are the platform's answers.
refresh_state(s, d, live, vod, dur) ==
    IF ~s.started THEN [s |-> s, d |-> d]
    ELSE IF vod = 0 THEN [s |-> polled(s, live), d |-> d]
    ELSE IF s.vod_platform_id # vod
    THEN refresh_latest(switch_to_vod(polled(s, live), d, vod), live, dur)
    ELSE refresh_latest([s |-> polled(s, live), d |-> d], live, dur)

safe_end(s) ==
    s.last_seen_duration_seconds - (IF s.last_is_live = "True" THEN lag_seconds ELSE 0)

\* A window that is not clipped to safe_end.
chunk_len_unclipped(s) == chunk_seconds

chunk_len(s) == Min(chunk_seconds, safe_end(s) - s.ingest_cursor_seconds)

\* _finalize after its commit; next_chunk() then returns None.
finalized(c) ==
    [s |-> [c.s EXCEPT !.finished = TRUE],
     d |-> IF c.s.video_id # 0 THEN mark_video_processed(c.d, c.s.video_id, TRUE)
           ELSE c.d,
     ret |-> "none"]

finalize(s, d) == finalized(commit_pending_progress(s, d))

source_stop(s) == [s EXCEPT !.finished = TRUE]

(* ------------------------------------------------------------ the session *)
NoChunk == [vod |-> 0, offset |-> 0, duration |-> 0, seconds |-> 0, prev |-> None]

\* Seconds of audio ffmpeg finds in the window [offset, offset + duration) of an archive.
audio_seconds(vod, offset, duration) ==
    Max(0, Min(offset + duration, plat_dur[vod]) - offset)

\* Embedder.embed: one timestamp and one vector per second of audio in the chunk file,
\* the timestamps counted from offset_seconds.  A vector is named by the audio it encodes.
embed(video_id, offset, seconds) ==
    [timestamps |-> [j \in 1..seconds |-> offset + j - 1],
     embeddings |-> [j \in 1..seconds |-> <<video_id, offset + j - 1>>]]

(* ---------------------------------------------------------- TwitchMonitor *)
\* A string is the sequence of its characters.
DigitChars == <<"0", "1", "2", "3", "4", "5", "6", "7", "8", "9">>

isdigit(ch) == \E i \in 1..Len(DigitChars) : DigitChars[i] = ch

digit_value(ch) == (CHOOSE i \in 1..Len(DigitChars) : DigitChars[i] = ch) - 1

\* str.lower on the letters of the alphabet in use.
lower(ch) ==
    IF ch = "H" THEN "h" ELSE IF ch = "M" THEN "m" ELSE IF ch = "S" THEN "s" ELSE ch

\* str.strip: leading and trailing blanks removed.
RECURSIVE strip(_)
strip(text) ==
    IF text = <<>> THEN text
    ELSE IF Head(text) = " " THEN strip(Tail(text))
    ELSE IF text[Len(text)] = " " THEN strip(SubSeq(text, 1, Len(text) - 1))
    ELSE text

\* int(number) for a string of digits.
RECURSIVE int_of(_)
int_of(number) ==
    IF number = <<>> THEN 0
    ELSE 10 * int_of(SubSeq(number, 1, Len(number) - 1))
            + digit_value(number[Len(number)])

\* unit_seconds with the minute taken for an hour.
unit_seconds_hours(ch) ==
    IF ch = "h" THEN 3600 ELSE IF ch = "m" THEN 3600 ELSE IF ch = "s" THEN 1 ELSE 0

\* unit_seconds of parse_duration_to_seconds; 0 for a character that is no unit.
unit_seconds(ch) ==
    IF ch = "h" THEN 3600 ELSE IF ch = "m" THEN 60 ELSE IF ch = "s" THEN 1 ELSE 0

\* The loop of parse_duration_to_seconds from character i on.
RECURSIVE parse_loop(_, _, _, _)
parse_loop(duration, i, number, total) ==
    IF i > Len(duration) THEN total
    ELSE IF isdigit(lower(duration[i]))
    THEN parse_loop(duration, i + 1, Append(number, lower(duration[i])), total)
    ELSE IF unit_seconds(lower(duration[i])) # 0 /\ number # <<>>
    THEN parse_loop(duration, i + 1, <<>>,
                    total + int_of(number) * unit_seconds(lower(duration[i])))
    ELSE parse_loop(duration, i + 1, number, total)

\* TwitchMonitor.parse_duration_to_seconds.
parse_duration_to_seconds(duration) ==
    IF strip(duration) = <<>> THEN 0 ELSE parse_loop(strip(duration), 1, <<>>, 0)

\* No TwitchMonitor call.  text: the duration string to parse; seconds: the result;
\* rows: the archives of the Helix answer; latest: what get_latest_archive_vod
\* returned, <<>> for None and <<vod>> for a dict.
NoHelix == [pc |-> "none", text |-> <<>>, seconds |-> 0, rows |-> <<>>, latest |-> <<>>]

\* datetime order of two created_at values, each a pair <<day, hour>>.
not_later(a, b) == a[1] < b[1] \/ (a[1] = b[1] /\ a[2] <= b[2])

\* max(rows, key=_created): the first row no other row is created after.
latest_row(rows) ==
    rows[CHOOSE k \in 1..Len(rows) :
            /\ \A m \in 1..Len(rows) : not_later(rows[m].created_at, rows[k].created_at)
            /\ \A m \in 1..(k - 1) : rows[m].created_at # rows[k].created_at]

\* The dict get_latest_archive_vod builds for the row latest.
archive_vod(latest) ==
    [id |-> latest.id, url |-> canonical_vod_url(latest.id),
     created_at |-> latest.created_at, duration |-> latest.duration,
     duration_seconds |-> parse_duration_to_seconds(latest.duration)]

\* The first row of the answer, whatever its created_at.
first_archive_vod(rows) == <<archive_vod(rows[1])>>

\* TwitchMonitor.get_latest_archive_vod on the rows of the Helix answer.
latest_archive_vod(rows) == <<archive_vod(latest_row(rows))>>

get_latest_archive_vod(rows) ==
    IF rows = <<>> THEN <<>> ELSE latest_archive_vod(rows)

(* ----------------------------------------------------------------- search *)
\* No search request: no upload file and no prepared WAV on disk.
\* upload: search_upload's temp_path exists; wav: the file prepare() writes exists;
\* prepared: search_file's local prepared_wav is set; embeddings, timestamps: what the
\* query embedder returned; loaded: load_vectors_and_ids has returned, with vectors
\* and ids; neighbors: what the matcher returned; aligned: align has returned, with
\* alignment; out: how the request ended ("none" while it runs).
NoQuery ==
    [pc |-> "none", upload |-> FALSE, wav |-> FALSE, prepared |-> FALSE,
     embeddings |-> <<>>, timestamps |-> <<>>, loaded |-> FALSE, vectors |-> <<>>,
     ids |-> <<>>, neighbors |-> <<>>, aligned |-> FALSE, alignment |-> <<>>,
     out |-> "none", reason |-> ""]

(* --------------------------------------------------------- MonitorManager *)
Workers == 1..MaxWorkers

\* No session object.
NoSession == <<0, 0>>

\* MonitorStatus(): streamer 0 is None, last_error FALSE is None.
IdleStatus == [state |-> "idle", streamer |-> 0, last_error |-> FALSE]

\* No API call in progress.
NoCall == [pc |-> "idle", session |-> NoSession, thread |-> 0]

\* Nothing loaded by append_vectors.
NotLoaded == [vector_file |-> <<>>, id_file |-> <<>>]

\* The stream is live, with or without an archive listed yet.
InitPlatform ==
    /\ plat_live = TRUE
    /\ plat_vod \in {0, 1}
    /\ plat_dur = [v \in Vods |-> 0]
    /\ plat_changes = 0

\* The stream is live and its archive has been growing for a while.
InitPlatformMidStream ==
    /\ plat_live = TRUE
    /\ plat_vod = 1
    /\ plat_dur = [v \in Vods |-> IF v = 1 THEN MaxDuration ELSE 0]
    /\ plat_changes = 0

\* MonitorManager.__init__ and a process that has built its first follower.
InitProcess ==
    /\ status = IdleStatus
    /\ thread = 0
    /\ stop_event = FALSE
    /\ active_session = NoSession
    /\ spawned = 0
    /\ api = NoCall
    /\ calls = 0
    /\ stopped = FALSE
    /\ search_pc = "none"
    /\ searches = 0
    /\ w_pc = [w \in Workers |-> "none"]
    /\ w_src = [w \in Workers |-> NewSource]
    /\ w_running = [w \in Workers |-> FALSE]
    /\ w_session = [w \in Workers |-> 0]
    /\ w_chunk = [w \in Workers |-> NoChunk]
    /\ w_ids = [w \in Workers |-> <<>>]
    /\ w_loaded = [w \in Workers |-> NotLoaded]
    /\ w_first = [w \in Workers |-> "pending"]
    /\ vector_file = <<>>
    /\ id_file = <<>>
    /\ src = NewSource
    /\ running = FALSE
    /\ pc = "new"
    /\ chunk = NoChunk
    /\ timestamps = <<>>
    /\ embeddings = <<>>
    /\ ids = <<>>
    /\ stage = "none"
    /\ restarts = 0
    /\ refused = FALSE
    /\ quiet_refreshes = 0
    /\ media_url = "None"
    /\ extraction = NoExtraction
    /\ last_end = [v \in Vods |-> None]
    /\ came_back = FALSE
    /\ reported = 0
    /\ last_offset = [v \in Vods |-> None]
    /\ first_chunk = "pending"
    /\ assumed = TRUE

\* The process with an empty store and no search request.
InitProgram == InitProcess /\ db = EmptyDb /\ query = NoQuery /\ helix = NoHelix

Init == InitPlatform /\ InitProgram

InitSup == InitPlatformMidStream /\ InitProgram

\* What the platform answers to get_latest_archive_vod: the archive's duration.
latest_duration == IF plat_vod = 0 THEN 0 ELSE plat_dur[plat_vod]

\* A next_chunk() that tests for the end of the archive before it looks for a window.
finalize_or_extract(s, d) ==
    IF s.vod_platform_id = 0 \/ s.video_id = 0
    THEN [s |-> IF s.last_is_live = "False" THEN [s EXCEPT !.finished = TRUE] ELSE s,
          d |-> d, ret |-> "none"]
    ELSE IF s.last_is_live = "False" /\ s.no_growth_checks >= finalize_checks
    THEN finalize(s, d)
    ELSE IF safe_end(s) > s.ingest_cursor_seconds
    THEN [s |-> [s EXCEPT !.pending_commit_end_seconds =
                              s.ingest_cursor_seconds + chunk_len(s)],
          d |-> d, ret |-> "chunk"]
    ELSE [s |-> s, d |-> d, ret |-> "none"]

\* next_chunk() after the refresh: extract a window, finalize, or return None.
\* ret is "chunk" or "none".
extract_or_finalize(s, d) ==
    IF s.vod_platform_id = 0 \/ s.video_id = 0
    THEN [s |-> IF s.last_is_live = "False" THEN [s EXCEPT !.finished = TRUE] ELSE s,
          d |-> d, ret |-> "none"]
    ELSE IF safe_end(s) > s.ingest_cursor_seconds
    THEN [s |-> [s EXCEPT !.pending_commit_end_seconds =
                              s.ingest_cursor_seconds + chunk_len(s)],
          d |-> d, ret |-> "chunk"]
    ELSE IF s.last_is_live = "False" /\ s.no_growth_checks >= finalize_checks
    THEN finalize(s, d)
    ELSE [s |-> s, d |-> d, ret |-> "none"]

\* The steps of next_chunk(), each applied to the result of the step before it.
after_commit(r) == commit_pending_progress(r.s, r.d)

after_refresh(c, live, vod, dur) == refresh_state(c.s, c.d, live, vod, dur)

after_extraction(r) == extract_or_finalize(r.s, r.d)

\* The refresh first, with a switch that keeps the pending window, and the commit of
\* the window after it.
commit_and_refresh_across_switch(s, d, due, live, vod, dur) ==
    IF due
    THEN commit_pending_progress(
             [refresh_state(s, d, live, vod, dur).s
                 EXCEPT !.pending_commit_end_seconds = s.pending_commit_end_seconds],
             refresh_state(s, d, live, vod, dur).d)
    ELSE commit_pending_progress(s, d)

\* The refresh first and the commit of the pending window after it.
commit_and_refresh_swapped(s, d, due, live, vod, dur) ==
    IF due THEN after_commit(refresh_state(s, d, live, vod, dur))
    ELSE commit_pending_progress(s, d)

\* next_chunk() up to the extraction: commit the pending window, then refresh if due.
commit_and_refresh(s, d, due, live, vod, dur) ==
    IF due THEN after_refresh(commit_pending_progress(s, d), live, vod, dur)
    ELSE commit_pending_progress(s, d)

\* A next_chunk() that does not look at _finished.
next_chunk_unguarded(s, d, due, live, vod, dur) ==
    after_extraction(commit_and_refresh(s, d, due, live, vod, dur))

next_chunk(s, d, due, live, vod, dur) ==
    IF s.finished THEN [s |-> s, d |-> d, ret |-> "none"]
    ELSE after_extraction(commit_and_refresh(s, d, due, live, vod, dur))

\* A chunk whose offset is the end of the window and not its start.
returned_chunk_at_end(s, prev) ==
    [vod |-> s.vod_platform_id,
     offset |-> s.pending_commit_end_seconds,
     duration |-> s.pending_commit_end_seconds - s.ingest_cursor_seconds,
     seconds |-> audio_seconds(s.vod_platform_id, s.ingest_cursor_seconds,
                               s.pending_commit_end_seconds - s.ingest_cursor_seconds),
     prev |-> prev]

\* The chunk next_chunk() returns from a follower that has made a window pending.
returned_chunk(s, prev) ==
    [vod |-> s.vod_platform_id,
     offset |-> s.ingest_cursor_seconds,
     duration |-> s.pending_commit_end_seconds - s.ingest_cursor_seconds,
     seconds |-> audio_seconds(s.vod_platform_id, s.ingest_cursor_seconds,
                               s.pending_commit_end_seconds - s.ingest_cursor_seconds),
     prev |-> prev]

\* run(): self._running = True; self.source.start(), whose forced refresh succeeds.
SessionRun ==
    /\ pc = "new"
    /\ \E r \in {refresh_state([src EXCEPT !.started = TRUE], db,
                               plat_live, plat_vod, latest_duration)} :
          /\ src' = r.s
          /\ db' = r.d
    /\ running' = TRUE
    /\ pc' = "loop"
    /\ reported' = IF plat_vod # 0 THEN latest_duration ELSE reported
    /\ quiet_refreshes' = quiet_after(quiet_refreshes, [src EXCEPT !.started = TRUE], db,
                                      TRUE, plat_live, plat_vod, latest_duration)
    /\ UNCHANGED <<supVars, platVars, vector_file, id_file, chunk, timestamps, embeddings,
                   ids, stage, restarts, refused, media_url,
                   extraction, last_end, came_back,
                   last_offset, first_chunk, assumed>>

\* run(): source.start() raises (a platform call fails); start() is outside the try.
SessionRunRaises ==
    /\ pc = "new"
    /\ src' = [src EXCEPT !.started = TRUE]
    /\ running' = TRUE
    /\ pc' = "done"
    /\ UNCHANGED <<supVars, platVars, storeVars, chunk, timestamps, embeddings, ids,
                   stage, histVars>>

\* while self._running: chunk = self.source.next_chunk() returns a window; due says
\* whether poll_seconds have passed since the last refresh.
NextChunkAt(due) ==
    /\ pc = "loop"
    /\ running
    /\ \E r \in {next_chunk(src, db, due, plat_live, plat_vod, latest_duration)} :
          /\ r.ret = "chunk"
          /\ src' = r.s
          /\ db' = r.d
          /\ chunk' = returned_chunk(r.s, last_offset[r.s.vod_platform_id])
          /\ last_end' = [last_end EXCEPT ![r.s.vod_platform_id] =
                                 r.s.pending_commit_end_seconds]
          /\ came_back' = (\/ came_back
                           \/ /\ chunk # NoChunk
                              /\ chunk.vod # r.s.vod_platform_id
                              /\ last_end[r.s.vod_platform_id] # None)
          /\ last_offset' = [last_offset EXCEPT ![r.s.vod_platform_id] =
                                                    r.s.ingest_cursor_seconds]
          /\ reported' = IF due /\ plat_vod # 0 THEN latest_duration ELSE reported
          /\ quiet_refreshes' = quiet_after(quiet_refreshes, src, db, due, plat_live,
                                            plat_vod, latest_duration)
    /\ first_chunk' = IF first_chunk = "pending" THEN "this" ELSE "past"
    /\ stage' = "extracted"
    /\ pc' = "embed"
    /\ UNCHANGED <<supVars, platVars, vector_file, id_file, running, timestamps,
                   embeddings, ids, restarts, refused, media_url, extraction, assumed>>

NextChunk == \E due \in BOOLEAN : NextChunkAt(due)

\* next_chunk() returns None: run() breaks when the source is finished (its finally
\* stops the source), else sleeps poll_interval and tests the loop condition again.
NextChunkNoneAt(due) ==
    /\ pc = "loop"
    /\ running
    /\ \E r \in {next_chunk(src, db, due, plat_live, plat_vod, latest_duration)} :
          /\ r.ret = "none"
          /\ src' = r.s
          /\ db' = r.d
          /\ pc' = IF r.s.finished THEN "done" ELSE "loop"
          /\ reported' = IF due /\ plat_vod # 0 THEN latest_duration ELSE reported
          /\ quiet_refreshes' = quiet_after(quiet_refreshes, src, db, due, plat_live,
                                            plat_vod, latest_duration)
    /\ stage' = IF src.pending_commit_end_seconds # None THEN "committed" ELSE stage
    /\ UNCHANGED <<supVars, platVars, vector_file, id_file, running, chunk, timestamps,
                   embeddings, ids, restarts, refused, media_url, extraction, last_end, came_back,
                   last_offset, first_chunk, assumed>>

NextChunkNone == \E due \in BOOLEAN : NextChunkNoneAt(due)

\* next_chunk() called on the source after run() has ended (by whoever still holds the
\* object): applied to a finished source.
NextChunkFinished ==
    /\ pc = "done"
    /\ src.finished
    /\ \E due \in BOOLEAN :
          \E r \in {next_chunk(src, db, due, plat_live, plat_vod, latest_duration)} :
             /\ src' = r.s
             /\ db' = r.d
    /\ refused' = TRUE
    /\ UNCHANGED <<supVars, platVars, vector_file, id_file, running, pc, chunk,
                   timestamps, embeddings, ids, stage, restarts, quiet_refreshes,
                   media_url, extraction,
                   last_end, came_back,
                   reported,
                   last_offset, first_chunk, assumed>>

\* next_chunk() raises inside _refresh_state: is_live fails, or get_latest_archive_vod
\* fails after _last_is_live was assigned.  The pending window has been committed;
\* run()'s finally stops the source.
NextChunkRefreshRaises ==
    /\ pc = "loop"
    /\ running
    /\ ~src.finished
    /\ \E c \in {commit_pending_progress(src, db)} :
          /\ \E got_live \in BOOLEAN :
                src' = source_stop(IF got_live THEN polled(c.s, plat_live) ELSE c.s)
          /\ db' = c.d
    /\ stage' = IF src.pending_commit_end_seconds # None THEN "committed" ELSE stage
    /\ pc' = "done"
    /\ UNCHANGED <<supVars, platVars, vector_file, id_file, running, chunk, timestamps,
                   embeddings, ids, histVars>>

\* next_chunk() raises inside _extract_chunk (ffmpeg fails twice), after the commit and
\* the refresh and before the window is made pending; run()'s finally stops the source.
NextChunkExtractRaises ==
    /\ pc = "loop"
    /\ running
    /\ ~src.finished
    /\ \E due \in BOOLEAN :
          \E r \in {commit_and_refresh(src, db, due, plat_live, plat_vod,
                                       latest_duration)} :
             /\ extract_or_finalize(r.s, r.d).ret = "chunk"
             /\ src' = source_stop(r.s)
             /\ db' = r.d
             /\ reported' = IF due /\ plat_vod # 0 THEN latest_duration ELSE reported
             /\ quiet_refreshes' = quiet_after(quiet_refreshes, src, db, due, plat_live,
                                               plat_vod, latest_duration)
    /\ stage' = IF src.pending_commit_end_seconds # None THEN "committed" ELSE stage
    /\ pc' = "done"
    /\ UNCHANGED <<supVars, platVars, vector_file, id_file, running, chunk, timestamps,
                   embeddings, ids, restarts, refused, media_url, extraction, last_end,
                   came_back, last_offset, first_chunk, assumed>>

\* next_chunk() leaves _extract_chunk by an exception: nothing is made pending, and
\* run()'s finally stops the source.
ExtractionRaised(r) ==
    /\ src' = source_stop(r.s)
    /\ db' = r.d
    /\ stage' = IF src.pending_commit_end_seconds # None THEN "committed" ELSE stage
    /\ pc' = "done"
    /\ UNCHANGED <<chunk, last_end, came_back, last_offset, first_chunk>>

\* next_chunk() makes the extracted window pending and returns it.
ExtractionReturned(r) ==
    /\ src' = r.s
    /\ db' = r.d
    /\ chunk' = returned_chunk(r.s, last_offset[r.s.vod_platform_id])
    /\ last_end' = [last_end EXCEPT ![r.s.vod_platform_id] = r.s.pending_commit_end_seconds]
    /\ came_back' = (\/ came_back
                     \/ /\ chunk # NoChunk
                        /\ chunk.vod # r.s.vod_platform_id
                        /\ last_end[r.s.vod_platform_id] # None)
    /\ last_offset' = [last_offset EXCEPT ![r.s.vod_platform_id] =
                                              r.s.ingest_cursor_seconds]
    /\ first_chunk' = IF first_chunk = "pending" THEN "this" ELSE "past"
    /\ stage' = "extracted"
    /\ pc' = "embed"

\* next_chunk() with a window to read, the calls of _extract_chunk spelled out: r is the
\* follower after the commit and the refresh, x what _extract_chunk did.
NextChunkExtractAt(due, r, x) ==
    /\ extract_or_finalize(r.s, r.d).ret = "chunk"
    /\ media_url' = x.media_url
    /\ extraction' = [attempts |-> x.attempts, resolves |-> x.resolves,
                      reresolves |-> x.reresolves, raised |-> x.raised]
    /\ IF x.raised THEN ExtractionRaised(r)
       ELSE ExtractionReturned(extract_or_finalize(r.s, r.d))
    /\ reported' = IF due /\ plat_vod # 0 THEN latest_duration ELSE reported
    /\ quiet_refreshes' = quiet_after(quiet_refreshes, src, db, due, plat_live, plat_vod,
                                      latest_duration)

\* The URL cached when _extract_chunk is entered: _switch_to_vod drops it.
media_url_of(s) == IF s.vod_platform_id # src.vod_platform_id THEN "None" ELSE media_url

NextChunkExtract ==
    /\ pc = "loop"
    /\ running
    /\ ~src.finished
    /\ \E due \in BOOLEAN :
          \E r \in {commit_and_refresh(src, db, due, plat_live, plat_vod,
                                       latest_duration)} :
             \E fresh, ytdlp_ok, ffmpeg_ok, ytdlp_again, ffmpeg_again, file_ok \in BOOLEAN :
                NextChunkExtractAt(due, r,
                                   extract_chunk(media_url_of(r.s), fresh, ytdlp_ok,
                                                 ffmpeg_ok, ytdlp_again, ffmpeg_again,
                                                 file_ok))
    /\ UNCHANGED <<supVars, platVars, vector_file, id_file, running, timestamps,
                   embeddings, ids, restarts, refused, assumed>>

\* while self._running fails: the finally clause calls source.stop().
LoopExit ==
    /\ pc = "loop"
    /\ ~running
    /\ src' = source_stop(src)
    /\ pc' = "done"
    /\ UNCHANGED <<supVars, platVars, storeVars, running, chunk, timestamps, embeddings, ids,
                   stage, histVars>>

\* embedder.embed(chunk.audio_path, chunk.offset_seconds): one timestamp per second of
\* audio in the file; no timestamps: continue.
Embed ==
    /\ pc = "embed"
    /\ timestamps' = embed(src.video_id, chunk.offset, chunk.seconds).timestamps
    /\ embeddings' = embed(src.video_id, chunk.offset, chunk.seconds).embeddings
    /\ pc' = IF chunk.seconds = 0 THEN "loop" ELSE "store"
    /\ stage' = IF chunk.seconds = 0 THEN "skipped" ELSE "embedded"
    /\ assumed' = (assumed /\ chunk.seconds = chunk.duration)
    /\ UNCHANGED <<supVars, platVars, storeVars, src, running, chunk, ids, restarts,
                   refused, quiet_refreshes, media_url, extraction, last_end, came_back,
                   reported, last_offset, first_chunk>>

EmbedRaises ==
    /\ pc = "embed"
    /\ src' = source_stop(src)
    /\ pc' = "done"
    /\ stage' = "raised"
    /\ UNCHANGED <<supVars, platVars, storeVars, running, chunk, timestamps, embeddings, ids,
                   histVars>>

\* A loop body that goes back to the loop test right after store_fingerprints.
StoreFingerprintsOnly ==
    /\ pc = "store"
    /\ \E r \in {store_fingerprints(db, src.video_id, timestamps)} :
          /\ db' = r.d
          /\ ids' = r.ids
    /\ pc' = "loop"
    /\ stage' = "stored"
    /\ UNCHANGED <<supVars, platVars, vector_file, id_file, src, running, chunk, timestamps,
                   embeddings, histVars>>

\* ids = self.store.store_fingerprints(video_id=self.source.video_id, timestamps=...)
StoreFingerprints ==
    /\ pc = "store"
    /\ \E r \in {store_fingerprints(db, src.video_id, timestamps)} :
          /\ db' = r.d
          /\ ids' = r.ids
    /\ pc' = "append"
    /\ stage' = "stored"
    /\ UNCHANGED <<supVars, platVars, vector_file, id_file, src, running, chunk,
                   timestamps, embeddings, histVars>>

StoreFingerprintsRaises ==
    /\ pc = "store"
    /\ src' = source_stop(src)
    /\ pc' = "done"
    /\ stage' = "raised"
    /\ UNCHANGED <<supVars, platVars, storeVars, running, chunk, timestamps, embeddings, ids,
                   histVars>>

\* self.store.append_vectors(embeddings, ids): both np.save calls; back to the loop test.
AppendVectors ==
    /\ pc = "append"
    /\ \E r \in {append_vectors(vector_file, id_file, embeddings, ids)} :
          /\ vector_file' = r.vector_file
          /\ id_file' = r.id_file
    /\ pc' = "loop"
    /\ stage' = "appended"
    /\ UNCHANGED <<supVars, platVars, db, src, running, chunk, timestamps, embeddings,
                   ids, histVars>>

\* append_vectors raises before anything is saved (np.load fails).
AppendVectorsRaises ==
    /\ pc = "append"
    /\ src' = source_stop(src)
    /\ pc' = "done"
    /\ stage' = "raised"
    /\ UNCHANGED <<supVars, platVars, storeVars, running, chunk, timestamps, embeddings, ids,
                   histVars>>

\* IngestSession.stop(), called by the supervisor's stop().  run() reads the flag at the
\* loop test only, so the call is interleaved right before that test.
SessionStop ==
    /\ pc = "loop"
    /\ running
    /\ running' = FALSE
    /\ UNCHANGED <<supVars, platVars, storeVars, src, pc, chunk, timestamps, embeddings, ids,
                   stage, histVars>>

\* The state of a worker that has just built a new source and session.
FreshSession ==
    /\ src' = NewSource
    /\ running' = FALSE
    /\ pc' = "new"
    /\ chunk' = NoChunk
    /\ timestamps' = <<>>
    /\ embeddings' = <<>>
    /\ ids' = <<>>
    /\ stage' = "none"
    /\ first_chunk' = "pending"
    /\ restarts' = restarts + 1
    /\ refused' = FALSE
    /\ quiet_refreshes' = 0
    /\ media_url' = "None"
    /\ extraction' = NoExtraction
    /\ last_end' = [v \in Vods |-> None]
    /\ came_back' = FALSE

\* The process dies inside run() and, started again, builds a new follower.
CrashRestart ==
    /\ pc \notin {"new", "done"}
    /\ restarts < MaxRestarts
    /\ FreshSession
    /\ UNCHANGED <<supVars, platVars, storeVars, reported, last_offset, assumed>>

\* The process dies inside append_vectors between the two np.save calls.
CrashInsideAppend ==
    /\ pc = "append"
    /\ restarts < MaxRestarts
    /\ vector_file' = append_vectors(vector_file, id_file, embeddings, ids).vector_file
    /\ FreshSession
    /\ assumed' = FALSE
    /\ UNCHANGED <<supVars, platVars, db, id_file, reported, last_offset>>

\* _run_loop: run() has returned or raised; the next live poll builds a new follower.
NewFollower ==
    /\ pc = "done"
    /\ restarts < MaxRestarts
    /\ FreshSession
    /\ UNCHANGED <<supVars, platVars, storeVars, reported, last_offset, assumed>>

(* ----------------------------------------------------------- the platform *)
\* The follower observes the platform in _refresh_state only, so the platform's steps
\* are interleaved right before each observation.
observing == pc \in {"new", "loop"}

\* The latest archive grows by a second.
PlatformGrow ==
    /\ observing
    /\ plat_vod # 0
    /\ plat_dur[plat_vod] < MaxDuration
    /\ plat_dur' = [plat_dur EXCEPT ![plat_vod] = @ + 1]
    /\ UNCHANGED <<supVars, plat_live, plat_vod, plat_changes, storeVars, sessVars, histVars>>

\* The stream goes offline or live.
PlatformLive ==
    /\ observing
    /\ plat_live' = ~plat_live
    /\ UNCHANGED <<supVars, plat_vod, plat_dur, plat_changes, storeVars, sessVars, histVars>>

\* Another archive becomes the latest one the platform lists (a new broadcast, or the
\* latest archive was deleted), or the platform lists none any more.
PlatformNewArchiveWithin(changes) ==
    /\ observing
    /\ plat_changes < changes
    /\ \E v \in (0..NumVods) \ {plat_vod} : plat_vod' = v
    /\ plat_changes' = plat_changes + 1
    /\ UNCHANGED <<supVars, plat_live, plat_dur, storeVars, sessVars, histVars>>

PlatformNewArchive == PlatformNewArchiveWithin(MaxArchiveChanges)

\* The latest archive changes once more than in Spec: the platform lists a further
\* archive, or lists again one it listed before.
PlatformArchiveAgain == PlatformNewArchiveWithin(MaxSwitches)

Next ==
    \/ SessionRun
    \/ SessionRunRaises
    \/ NextChunk
    \/ NextChunkNone
    \/ NextChunkFinished
    \/ NextChunkRefreshRaises
    \/ NextChunkExtractRaises
    \/ LoopExit
    \/ Embed
    \/ EmbedRaises
    \/ StoreFingerprints
    \/ StoreFingerprintsRaises
    \/ AppendVectors
    \/ AppendVectorsRaises
    \/ SessionStop
    \/ CrashRestart
    \/ CrashInsideAppend
    \/ NewFollower
    \/ PlatformGrow
    \/ PlatformLive
    \/ PlatformNewArchive

Spec == Init /\ [][Next]_vars

(* ------------------------------------------ a session that is left to run *)
\* One session whose calls all succeed: nobody stops it, nothing raises, the process
\* does not die.
NextFollow ==
    \/ SessionRun
    \/ NextChunk
    \/ NextChunkNone
    \/ Embed
    \/ StoreFingerprints
    \/ AppendVectors
    \/ PlatformGrow
    \/ PlatformLive
    \/ PlatformNewArchive

\* run() keeps going: each call returns, and since the loop sleeps poll_interval
\* between calls that return None, a call for which the refresh is due keeps coming.
FairFollow ==
    /\ WF_vars(SessionRun)
    /\ WF_vars(NextChunkAt(TRUE) \/ NextChunkNoneAt(TRUE))
    /\ WF_vars(Embed)
    /\ WF_vars(StoreFingerprints)
    /\ WF_vars(AppendVectors)

SpecFollow == Init /\ [][NextFollow]_vars /\ FairFollow

\* One follower run, from construction to the end of run(), while the platform changes
\* the streamer's latest archive up to MaxSwitches times.
NextSwitch ==
    \/ SessionRun
    \/ NextChunk
    \/ NextChunkNone
    \/ NextChunkFinished
    \/ Embed
    \/ StoreFingerprints
    \/ AppendVectors
    \/ SessionStop
    \/ PlatformGrow
    \/ PlatformLive
    \/ PlatformArchiveAgain

SpecSwitch == Init /\ [][NextSwitch]_vars

\* One archive, followed with the calls of _extract_chunk spelled out; a follower that
\* has ended is replaced by a new one.
NextExtract ==
    \/ SessionRun
    \/ NextChunkExtract
    \/ NextChunkNone
    \/ Embed
    \/ StoreFingerprints
    \/ AppendVectors
    \/ SessionStop
    \/ LoopExit
    \/ NewFollower
    \/ PlatformGrow
    \/ PlatformLive

SpecExtract == Init /\ [][NextExtract]_vars

(* ------------------------------------------- the store called on its own *)
\* The timestamp lists a caller may pass: up to MaxStoreLen seconds of an archive, in
\* any order, repeats included.
TimestampLists ==
    UNION {[1..n -> 0..(MaxDuration - 1)] : n \in 0..MaxStoreLen}

\* ids = store.store_fingerprints(video_id, timestamps), for any video and any list; the
\* arguments and the result are kept where run() keeps them.
StoreCall ==
    \E v \in Vods : \E ts \in TimestampLists :
        \E r \in {store_fingerprints(db, v, ts)} :
            /\ db' = r.d
            /\ ids' = r.ids
            /\ timestamps' = ts
            /\ src' = [src EXCEPT !.video_id = v]
            /\ UNCHANGED <<supVars, platVars, vector_file, id_file, running, pc, chunk,
                           embeddings, stage, histVars>>

SpecStore == Init /\ [][StoreCall]_vars

(* ------------------------------------------- MonitorManager and its workers *)
is_alive(w) == w # 0 /\ w_pc[w] \notin {"none", "dead"}

\* Positions of a worker inside IngestSession.run.
InRun == {"loop", "store", "append", "save"}

\* Positions where a worker can stay for more than five seconds: asleep before the loop
\* test, in a platform request, in an extraction, in the embedder, in file input/output.
Blocking == {"check", "poll", "run", "loop", "store", "append", "save"}

\* What the single-worker variables and the stores do in a step of the supervisor.
unusedVars == <<sessVars, histVars>>

\* start(streamer) with no live worker thread: clear the event, spawn a worker.
Start ==
    /\ api.pc = "idle"
    /\ calls < MaxCalls
    /\ ~is_alive(thread)
    /\ spawned < MaxWorkers
    /\ stop_event' = FALSE
    /\ status' = [state |-> "polling", streamer |-> 1, last_error |-> FALSE]
    /\ thread' = spawned + 1
    /\ spawned' = spawned + 1
    /\ w_pc' = [w_pc EXCEPT ![spawned + 1] = "spawned"]
    /\ calls' = calls + 1
    /\ stopped' = FALSE
    /\ UNCHANGED <<platVars, storeVars, unusedVars, active_session, api, searchVars,
                   w_src, w_running, w_session, w_chunk, w_ids, w_loaded, w_first>>

\* start(streamer) with a live worker thread in _thread: returns the current status for
\* the streamer monitored, raises MonitorConflictError for another one; no assignment.
StartWhileRunning ==
    /\ api.pc = "idle"
    /\ calls < MaxCalls
    /\ is_alive(thread)
    /\ calls' = calls + 1
    /\ stopped' = FALSE
    /\ UNCHANGED <<platVars, storeVars, unusedVars, monVars, spawned, api, searchVars,
                   workerVars>>

\* stop() with nothing to stop: returns False.
StopNotRunning ==
    /\ api.pc = "idle"
    /\ calls < MaxCalls
    /\ ~is_alive(thread)
    /\ status.state = "idle"
    /\ calls' = calls + 1
    /\ UNCHANGED <<platVars, storeVars, unusedVars, monVars, spawned, api, stopped,
                   searchVars, workerVars>>

\* stop(), first critical section: set the event, read _active_session and _thread.
StopBegin ==
    /\ api.pc = "idle"
    /\ calls < MaxCalls
    /\ is_alive(thread) \/ status.state # "idle"
    /\ stop_event' = TRUE
    /\ api' = [pc |-> "session", session |-> active_session, thread |-> thread]
    /\ calls' = calls + 1
    /\ UNCHANGED <<platVars, storeVars, unusedVars, status, thread, active_session,
                   spawned, stopped, searchVars, workerVars>>

\* stop(): session.stop() on the session read, if any: its _running becomes False.
StopSession ==
    /\ api.pc = "session"
    /\ api' = [api EXCEPT !.pc = "join"]
    /\ w_running' = IF api.session # NoSession /\ w_session[api.session[1]] = api.session[2]
                    THEN [w_running EXCEPT ![api.session[1]] = FALSE]
                    ELSE w_running
    /\ UNCHANGED <<platVars, storeVars, unusedVars, monVars, spawned, calls, stopped,
                   searchVars, w_pc, w_src, w_session, w_chunk, w_ids, w_loaded, w_first>>

\* stop(): thread.join(timeout=5) returns, the thread dead or five seconds over, and
\* the second critical section resets the manager; stop() returns True.
StopJoin ==
    /\ api.pc = "join"
    /\ IF is_alive(api.thread) THEN w_pc[api.thread] \in Blocking ELSE TRUE
    /\ active_session' = NoSession
    /\ thread' = 0
    /\ status' = IdleStatus
    /\ api' = NoCall
    /\ stopped' = TRUE
    /\ UNCHANGED <<platVars, storeVars, unusedVars, stop_event, spawned, calls,
                   searchVars, workerVars>>

\* _run_loop: while not self._stop_event.is_set().
WorkerLoopTest(w) ==
    /\ w_pc[w] \in {"spawned", "check"}
    /\ w_pc' = [w_pc EXCEPT ![w] = IF stop_event THEN "exit" ELSE "poll"]
    /\ UNCHANGED <<platVars, storeVars, unusedVars, monVars, apiVars, searchVars,
                   w_src, w_running, w_session, w_chunk, w_ids, w_loaded, w_first>>

\* _run_loop: is_live() answers and the status is set; offline, the worker sleeps and
\* tests the loop condition again; live, it builds a source and a session.
WorkerPoll(w) ==
    /\ w_pc[w] = "poll"
    /\ status' = [status EXCEPT !.state = "polling", !.streamer = 1, !.last_error = FALSE]
    /\ IF plat_live /\ w_session[w] < MaxSessions
       THEN /\ w_pc' = [w_pc EXCEPT ![w] = "publish"]
            /\ w_session' = [w_session EXCEPT ![w] = @ + 1]
            /\ w_src' = [w_src EXCEPT ![w] = NewSource]
            /\ w_running' = [w_running EXCEPT ![w] = FALSE]
            /\ w_chunk' = [w_chunk EXCEPT ![w] = NoChunk]
            /\ w_ids' = [w_ids EXCEPT ![w] = <<>>]
            /\ w_first' = [w_first EXCEPT ![w] = "pending"]
       ELSE /\ w_pc' = [w_pc EXCEPT ![w] = "check"]
            /\ UNCHANGED <<w_session, w_src, w_running, w_chunk, w_ids, w_first>>
    /\ UNCHANGED <<platVars, storeVars, unusedVars, thread, stop_event, active_session,
                   apiVars, searchVars, w_loaded>>

\* A worker that ends when the liveness check raises.
WorkerPollRaisesAndEnds(w) ==
    /\ w_pc[w] = "poll"
    /\ status' = [status EXCEPT !.state = "error", !.streamer = 1, !.last_error = TRUE]
    /\ w_pc' = [w_pc EXCEPT ![w] = "dead"]
    /\ UNCHANGED <<platVars, storeVars, unusedVars, thread, stop_event, active_session,
                   apiVars, searchVars, w_src, w_running, w_session, w_chunk, w_ids,
                   w_loaded, w_first>>

\* _run_loop: is_live() raises; the status becomes error, the worker sleeps and retries.
WorkerPollRaises(w) ==
    /\ w_pc[w] = "poll"
    /\ status' = [status EXCEPT !.state = "error", !.streamer = 1, !.last_error = TRUE]
    /\ w_pc' = [w_pc EXCEPT ![w] = "check"]
    /\ UNCHANGED <<platVars, storeVars, unusedVars, thread, stop_event, active_session,
                   apiVars, searchVars, w_src, w_running, w_session, w_chunk, w_ids,
                   w_loaded, w_first>>

\* _run_loop: with self._lock: publish the session, state ingesting.
WorkerPublish(w) ==
    /\ w_pc[w] = "publish"
    /\ active_session' = <<w, w_session[w]>>
    /\ status' = [status EXCEPT !.state = "ingesting"]
    /\ w_pc' = [w_pc EXCEPT ![w] = "run"]
    /\ UNCHANGED <<platVars, storeVars, unusedVars, thread, stop_event, apiVars,
                   searchVars, w_src, w_running, w_session, w_chunk, w_ids, w_loaded,
                   w_first>>

\* session.run(): self._running = True; self.source.start().
WorkerSessionRun(w) ==
    /\ w_pc[w] = "run"
    /\ \E r \in {refresh_state([w_src[w] EXCEPT !.started = TRUE], db,
                               plat_live, plat_vod, latest_duration)} :
          /\ w_src' = [w_src EXCEPT ![w] = r.s]
          /\ db' = r.d
    /\ w_running' = [w_running EXCEPT ![w] = TRUE]
    /\ w_pc' = [w_pc EXCEPT ![w] = "loop"]
    /\ UNCHANGED <<platVars, vector_file, id_file, unusedVars, monVars, apiVars,
                   searchVars, w_session, w_chunk, w_ids, w_loaded, w_first>>

\* run(): next_chunk() returns a window and the embedder embeds it; without timestamps
\* the loop continues.
WorkerNextChunk(w) ==
    /\ w_pc[w] = "loop"
    /\ w_running[w]
    /\ \E due \in BOOLEAN :
          \E r \in {next_chunk(w_src[w], db, due, plat_live, plat_vod, latest_duration)} :
             /\ r.ret = "chunk"
             /\ w_src' = [w_src EXCEPT ![w] = r.s]
             /\ db' = r.d
             /\ \E c \in {returned_chunk(r.s, None)} :
                   /\ w_chunk' = [w_chunk EXCEPT ![w] = c]
                   /\ w_pc' = [w_pc EXCEPT ![w] = IF c.seconds = 0 THEN "loop"
                                                  ELSE "store"]
    /\ w_first' = [w_first EXCEPT ![w] = IF @ = "pending" THEN "this" ELSE "past"]
    /\ UNCHANGED <<platVars, vector_file, id_file, unusedVars, monVars, apiVars,
                   searchVars, w_running, w_session, w_ids, w_loaded>>

\* run(): next_chunk() returns None; a finished source ends run(), whose finally stops
\* the source.
WorkerNextChunkNone(w) ==
    /\ w_pc[w] = "loop"
    /\ w_running[w]
    /\ \E due \in BOOLEAN :
          \E r \in {next_chunk(w_src[w], db, due, plat_live, plat_vod, latest_duration)} :
             /\ r.ret = "none"
             /\ w_src' = [w_src EXCEPT ![w] = r.s]
             /\ db' = r.d
             /\ w_pc' = [w_pc EXCEPT ![w] = IF r.s.finished THEN "ran" ELSE "loop"]
    /\ UNCHANGED <<platVars, vector_file, id_file, unusedVars, monVars, apiVars,
                   searchVars, w_running, w_session, w_chunk, w_ids, w_loaded, w_first>>

\* run(): while self._running fails; the finally clause stops the source.
WorkerLoopExit(w) ==
    /\ w_pc[w] = "loop"
    /\ ~w_running[w]
    /\ w_src' = [w_src EXCEPT ![w] = source_stop(@)]
    /\ w_pc' = [w_pc EXCEPT ![w] = "ran"]
    /\ UNCHANGED <<platVars, storeVars, unusedVars, monVars, apiVars, searchVars,
                   w_running, w_session, w_chunk, w_ids, w_loaded, w_first>>

\* run(): ids = self.store.store_fingerprints(...).
WorkerStore(w) ==
    /\ w_pc[w] = "store"
    /\ \E r \in {store_fingerprints(
                    db, w_src[w].video_id,
                    embed(w_src[w].video_id, w_chunk[w].offset,
                          w_chunk[w].seconds).timestamps)} :
          /\ db' = r.d
          /\ w_ids' = [w_ids EXCEPT ![w] = r.ids]
    /\ w_pc' = [w_pc EXCEPT ![w] = "append"]
    /\ UNCHANGED <<platVars, vector_file, id_file, unusedVars, monVars, apiVars,
                   searchVars, w_src, w_running, w_session, w_chunk, w_loaded, w_first>>

\* append_vectors: np.load of both files when both exist.
WorkerAppendLoad(w) ==
    /\ w_pc[w] = "append"
    /\ w_loaded' = [w_loaded EXCEPT ![w] =
                       [vector_file |-> vector_file, id_file |-> id_file]]
    /\ w_pc' = [w_pc EXCEPT ![w] = "save"]
    /\ UNCHANGED <<platVars, storeVars, unusedVars, monVars, apiVars, searchVars,
                   w_src, w_running, w_session, w_chunk, w_ids, w_first>>

\* append_vectors: np.save of what was loaded and the new rows; back to the loop test.
WorkerAppendSave(w) ==
    /\ w_pc[w] = "save"
    /\ \E r \in {append_vectors(
                    w_loaded[w].vector_file, w_loaded[w].id_file,
                    embed(w_src[w].video_id, w_chunk[w].offset,
                          w_chunk[w].seconds).embeddings,
                    w_ids[w])} :
          /\ vector_file' = r.vector_file
          /\ id_file' = r.id_file
    /\ w_loaded' = [w_loaded EXCEPT ![w] = NotLoaded]
    /\ w_pc' = [w_pc EXCEPT ![w] = "loop"]
    /\ UNCHANGED <<platVars, db, unusedVars, monVars, apiVars, searchVars,
                   w_src, w_running, w_session, w_chunk, w_ids, w_first>>

\* run() raises: source.start() fails, or next_chunk(), the embedder or a store call
\* fails inside the loop, where the finally clause stops the source.
WorkerSessionRaises(w) ==
    /\ w_pc[w] \in {"run", "store", "append"} \/ (w_pc[w] = "loop" /\ w_running[w])
    /\ w_src' = [w_src EXCEPT ![w] = IF w_pc[w] = "run" THEN [@ EXCEPT !.started = TRUE]
                                     ELSE source_stop(@)]
    /\ w_running' = [w_running EXCEPT ![w] = IF w_pc[w] = "run" THEN TRUE ELSE @]
    /\ w_pc' = [w_pc EXCEPT ![w] = "raised"]
    /\ UNCHANGED <<platVars, storeVars, unusedVars, monVars, apiVars, searchVars,
                   w_session, w_chunk, w_ids, w_loaded, w_first>>

\* _run_loop: session.run() returned: _set_status(state="polling", ...).
WorkerRunReturned(w) ==
    /\ w_pc[w] = "ran"
    /\ status' = [status EXCEPT !.state = "polling", !.streamer = 1, !.last_error = FALSE]
    /\ w_pc' = [w_pc EXCEPT ![w] = "finally"]
    /\ UNCHANGED <<platVars, storeVars, unusedVars, thread, stop_event, active_session,
                   apiVars, searchVars, w_src, w_running, w_session, w_chunk, w_ids,
                   w_loaded, w_first>>

\* _run_loop: session.run() raised: _set_status(state="error", ...).
WorkerRunRaised(w) ==
    /\ w_pc[w] = "raised"
    /\ status' = [status EXCEPT !.state = "error", !.streamer = 1, !.last_error = TRUE]
    /\ w_pc' = [w_pc EXCEPT ![w] = "finally"]
    /\ UNCHANGED <<platVars, storeVars, unusedVars, thread, stop_event, active_session,
                   apiVars, searchVars, w_src, w_running, w_session, w_chunk, w_ids,
                   w_loaded, w_first>>

\* _run_loop: finally: self._active_session = None.
WorkerFinally(w) ==
    /\ w_pc[w] = "finally"
    /\ active_session' = NoSession
    /\ w_pc' = [w_pc EXCEPT ![w] = "break"]
    /\ UNCHANGED <<platVars, storeVars, unusedVars, status, thread, stop_event, apiVars,
                   searchVars, w_src, w_running, w_session, w_chunk, w_ids, w_loaded,
                   w_first>>

\* _run_loop: if self._stop_event.is_set(): break; else sleep and loop.
WorkerBreakTest(w) ==
    /\ w_pc[w] = "break"
    /\ w_pc' = [w_pc EXCEPT ![w] = IF stop_event THEN "exit" ELSE "check"]
    /\ UNCHANGED <<platVars, storeVars, unusedVars, monVars, apiVars, searchVars,
                   w_src, w_running, w_session, w_chunk, w_ids, w_loaded, w_first>>

\* _run_loop after the loop: _thread = None, and a status that is not idle is reset
\* (last_error is not); the thread ends.
WorkerExit(w) ==
    /\ w_pc[w] = "exit"
    /\ thread' = 0
    /\ status' = IF status.state # "idle"
                 THEN [status EXCEPT !.state = "idle", !.streamer = 0]
                 ELSE status
    /\ w_pc' = [w_pc EXCEPT ![w] = "dead"]
    /\ UNCHANGED <<platVars, storeVars, unusedVars, stop_event, active_session, apiVars,
                   searchVars, w_src, w_running, w_session, w_chunk, w_ids, w_loaded,
                   w_first>>

(* ------------------------------------------------------------ SearchManager *)
\* A gate that is closed during ingestion only.
can_search_unless_ingesting == status.state # "ingesting"

\* MonitorManager.can_search: self.get_status().state == "idle".
can_search == status.state = "idle"

\* search_upload: can_search() is false: SearchBusyError, before anything else is done.
SearchBusy ==
    /\ search_pc \in {"none", "busy"}
    /\ searches < MaxSearches
    /\ ~can_search
    /\ search_pc' = "busy"
    /\ searches' = searches + 1
    /\ UNCHANGED <<query, helix, platVars, storeVars, unusedVars, monVars, apiVars, workerVars>>

\* search_upload: can_search() is true; the upload is saved, prepared and embedded.
SearchAdmitted ==
    /\ search_pc \in {"none", "busy"}
    /\ searches < MaxSearches
    /\ can_search
    /\ search_pc' = "admitted"
    /\ UNCHANGED <<query, helix, platVars, storeVars, unusedVars, monVars, apiVars, searches,
                   workerVars>>

\* load_vectors_and_ids: vectors = np.load(self.vector_file).
SearchLoadVectors ==
    /\ search_pc = "admitted"
    /\ search_pc' = "loading"
    /\ UNCHANGED <<query, helix, platVars, storeVars, unusedVars, monVars, apiVars, searches,
                   workerVars>>

\* load_vectors_and_ids: ids = np.load(self.id_file); the search completes.
SearchLoadIds ==
    /\ search_pc = "loading"
    /\ search_pc' = "none"
    /\ searches' = searches + 1
    /\ UNCHANGED <<query, helix, platVars, storeVars, unusedVars, monVars, apiVars, workerVars>>

NextSup ==
    \/ Start
    \/ StartWhileRunning
    \/ StopNotRunning
    \/ StopBegin
    \/ StopSession
    \/ StopJoin
    \/ \E w \in Workers : WorkerLoopTest(w)
    \/ \E w \in Workers : WorkerPoll(w)
    \/ \E w \in Workers : WorkerPollRaises(w)
    \/ \E w \in Workers : WorkerPublish(w)
    \/ \E w \in Workers : WorkerSessionRun(w)
    \/ \E w \in Workers : WorkerNextChunk(w)
    \/ \E w \in Workers : WorkerNextChunkNone(w)
    \/ \E w \in Workers : WorkerLoopExit(w)
    \/ \E w \in Workers : WorkerStore(w)
    \/ \E w \in Workers : WorkerAppendLoad(w)
    \/ \E w \in Workers : WorkerAppendSave(w)
    \/ \E w \in Workers : WorkerSessionRaises(w)
    \/ \E w \in Workers : WorkerRunReturned(w)
    \/ \E w \in Workers : WorkerRunRaised(w)
    \/ \E w \in Workers : WorkerFinally(w)
    \/ \E w \in Workers : WorkerBreakTest(w)
    \/ \E w \in Workers : WorkerExit(w)
    \/ SearchBusy
    \/ SearchAdmitted
    \/ SearchLoadVectors
    \/ SearchLoadIds

\* The supervisor, its workers and a search request, while the stream stays live.
SpecSup == InitSup /\ [][NextSup]_vars

\* A step of worker thread w.
WorkerStep(w) ==
    \/ WorkerLoopTest(w)
    \/ WorkerPoll(w)
    \/ WorkerPollRaises(w)
    \/ WorkerPublish(w)
    \/ WorkerSessionRun(w)
    \/ WorkerNextChunk(w)
    \/ WorkerNextChunkNone(w)
    \/ WorkerLoopExit(w)
    \/ WorkerStore(w)
    \/ WorkerAppendLoad(w)
    \/ WorkerAppendSave(w)
    \/ WorkerSessionRaises(w)
    \/ WorkerRunReturned(w)
    \/ WorkerRunRaised(w)
    \/ WorkerFinally(w)
    \/ WorkerBreakTest(w)
    \/ WorkerExit(w)

\* Threads are scheduled, sleeps and calls return, and the platform does not fail
\* every liveness request for ever.
FairWorkers ==
    \A w \in Workers : WF_vars(WorkerStep(w)) /\ SF_vars(WorkerPoll(w))

SpecSupFair == InitSup /\ [][NextSup]_vars /\ FairWorkers

\* Duration strings of up to MaxTextLen characters.
DurationChars == {"0", "1", "2", "h", "m", "s", " "}

DurationTexts == UNION {[1..n -> DurationChars] : n \in 0..MaxTextLen}

InitParse ==
    /\ InitPlatformMidStream
    /\ InitProcess
    /\ db = EmptyDb
    /\ query = NoQuery
    /\ \E text \in DurationTexts : helix = [NoHelix EXCEPT !.pc = "parse", !.text = text]

\* parse_duration_to_seconds(duration_raw) returns.
ParseDuration ==
    /\ helix.pc = "parse"
    /\ helix' = [helix EXCEPT !.pc = "parsed",
                              !.seconds = parse_duration_to_seconds(helix.text)]
    /\ UNCHANGED <<platVars, storeVars, sessVars, histVars, monVars, apiVars, workerVars,
                   search_pc, searches, query>>

SpecParse == InitParse /\ [][ParseDuration]_vars

\* Helix answers: up to MaxRows archives, each with the id, the created_at (an RFC 3339
\* time) and the duration string the videos endpoint gives for every archive.
CreatedAts == {<<1, 10>>, <<1, 12>>, <<2, 10>>}

DurationSamples ==
    {<<>>, <<"1", "h", "0", "m", "0", "s">>, <<"2", "m", "1", "0", "s">>}

ArchiveRows == [id : Vods, created_at : CreatedAts, duration : DurationSamples]

HelixAnswers == UNION {[1..n -> ArchiveRows] : n \in 0..MaxRows}

InitLatest ==
    /\ InitPlatformMidStream
    /\ InitProcess
    /\ db = EmptyDb
    /\ query = NoQuery
    /\ \E rows \in HelixAnswers : helix = [NoHelix EXCEPT !.pc = "videos", !.rows = rows]

\* get_latest_archive_vod(user_id) returns.
GetLatestArchiveVod ==
    /\ helix.pc = "videos"
    /\ helix' = [helix EXCEPT !.pc = "returned",
                              !.latest = get_latest_archive_vod(helix.rows)]
    /\ UNCHANGED <<platVars, storeVars, sessVars, histVars, monVars, apiVars, workerVars,
                   search_pc, searches, query>>

SpecLatest == InitLatest /\ [][GetLatestArchiveVod]_vars

(* ------------------------------------------------------- AlignmentService *)
\* Query timestamps are counted in half seconds, fingerprint timestamps in whole
\* seconds.  int(round(db_time - q_time)) for a query time of half half-seconds:
\* Python rounds a tie to the even integer.
round_offset(db_time, half) ==
    IF (2 * db_time - half) % 2 = 0 THEN (2 * db_time - half) \div 2
    ELSE IF ((2 * db_time - half - 1) \div 2) % 2 = 0
    THEN (2 * db_time - half - 1) \div 2
    ELSE (2 * db_time - half - 1) \div 2 + 1

\* store.get_fingerprint_rows and id_to_row.get: does the id resolve to a row.
resolves(fps, fp_id) == fp_id \in 1..Len(fps)

\* votes[(video_id, offset_seconds)] += 1 on a Counter, which keeps insertion order.
add_vote(votes, key) ==
    IF \E k \in 1..Len(votes) : votes[k].key = key
    THEN [k \in 1..Len(votes) |->
             IF votes[k].key = key THEN [votes[k] EXCEPT !.n = @ + 1] ELSE votes[k]]
    ELSE Append(votes, [key |-> key, n |-> 1])

\* The two loops of align over neighbor_ids, from row i and column j on.
RECURSIVE count_votes(_, _, _, _, _, _)
count_votes(neighbor_ids, query_timestamps, fps, i, j, votes) ==
    IF i > Len(neighbor_ids) THEN votes
    ELSE IF j > Len(neighbor_ids[i])
    THEN count_votes(neighbor_ids, query_timestamps, fps, i + 1, 1, votes)
    ELSE IF ~resolves(fps, neighbor_ids[i][j])
    THEN count_votes(neighbor_ids, query_timestamps, fps, i, j + 1, votes)
    ELSE count_votes(neighbor_ids, query_timestamps, fps, i, j + 1,
                     add_vote(votes,
                              <<fps[neighbor_ids[i][j]][1],
                                round_offset(fps[neighbor_ids[i][j]][2],
                                             query_timestamps[i])>>))

\* The last inserted bucket among those with the most votes.
most_common_last(votes) ==
    votes[CHOOSE k \in 1..Len(votes) :
             /\ \A m \in 1..Len(votes) : votes[m].n <= votes[k].n
             /\ \A m \in (k + 1)..Len(votes) : votes[m].n < votes[k].n]

\* votes.most_common(1)[0]: the first inserted bucket among those with the most votes.
most_common(votes) ==
    votes[CHOOSE k \in 1..Len(votes) :
             /\ \A m \in 1..Len(votes) : votes[m].n <= votes[k].n
             /\ \A m \in 1..(k - 1) : votes[m].n < votes[k].n]

\* neighbor_ids.size: rows times columns.
array_size(neighbor_ids) ==
    IF neighbor_ids = <<>> THEN 0 ELSE Len(neighbor_ids) * Len(neighbor_ids[1])

\* An optional field of AlignmentResult: Unset is Python's None, Some(x) the value x
\* (an offset may be any integer, the score v / Q is kept as the pair <<v, Q>>).
Unset == <<>>

Some(x) == <<x>>

\* A rejection that gives no reason.
rejected_silent(reason) ==
    [found |-> FALSE, video_id |-> Unset, timestamp_seconds |-> Unset, score |-> Unset,
     reason |-> ""]

\* AlignmentResult(found=False, reason=...).
rejected(reason) ==
    [found |-> FALSE, video_id |-> Unset, timestamp_seconds |-> Unset, score |-> Unset,
     reason |-> reason]

\* AlignmentResult(found=True, ...) for the bucket best.
accepted(best, q_len) ==
    [found |-> TRUE, video_id |-> Some(best.key[1]),
     timestamp_seconds |-> Some(best.key[2]), score |-> Some(<<best.n, q_len>>),
     reason |-> "Accepted"]

\* Thresholds that test the vote count only.
admit_by_count(best, q_len) ==
    IF best.n < min_vote_count THEN rejected("Best vote count is below min_vote_count")
    ELSE accepted(best, q_len)

\* align from the vote count on: the thresholds on the best bucket.
admit(best, q_len) ==
    IF best.n < min_vote_count THEN rejected("Best vote count is below min_vote_count")
    ELSE IF best.n * min_vote_ratio_den < min_vote_ratio_num * q_len
    THEN rejected("Best vote ratio is below min_vote_ratio")
    ELSE accepted(best, q_len)

admit_votes(votes, q_len) ==
    IF votes = <<>> THEN rejected("No alignment candidates")
    ELSE admit(most_common(votes), q_len)

\* AlignmentService.align.
align(neighbor_ids, query_timestamps, fps) ==
    IF array_size(neighbor_ids) = 0 THEN rejected("No nearest neighbors found")
    ELSE IF query_timestamps = <<>> THEN rejected("Query had no timestamps")
    ELSE IF Len(neighbor_ids) # Len(query_timestamps)
    THEN rejected("Neighbor/timestamp length mismatch")
    ELSE IF \A i \in 1..Len(neighbor_ids) : \A j \in 1..Len(neighbor_ids[i]) :
               ~resolves(fps, neighbor_ids[i][j])
    THEN rejected("No fingerprint rows resolved")
    ELSE admit_votes(count_votes(neighbor_ids, query_timestamps, fps, 1, 1, <<>>),
                     Len(query_timestamps))

(* ------------------------------------------- SearchManager and SearchService *)
\* VectorStore.load_vectors_and_ids: two empty arrays when a file is missing, else the
\* contents of the two files as they are.
load_vectors_and_ids(vf, idf) ==
    IF vf = <<>> \/ idf = <<>> THEN [vectors |-> <<>>, ids |-> <<>>]
    ELSE [vectors |-> vf, ids |-> idf]

\* The audio a query clip holds: up to MaxQueryLen seconds of an archive from second t0.
QueryClips ==
    {[j \in 1..n |-> <<a, t0 + j - 1>>] :
        a \in Vods, t0 \in 0..(MaxDuration - 1), n \in 0..MaxQueryLen}

\* QueryEmbedder.embed: one embedding per second of the clip, timestamps from 0, in
\* half seconds.
query_embed(clip) ==
    [embeddings |-> clip, timestamps |-> [j \in 1..Len(clip) |-> 2 * (j - 1)]]

\* Cosine similarity of two normalised vectors, each named by the audio it encodes.
similarity(q, d) == IF q = d THEN 1 ELSE 0

\* VectorMatcher.match: k = min(self.top_k, sim.shape[1]).
neighbor_count(db_vectors) == Min(top_k, Len(db_vectors))

\* VectorMatcher.match, one row of top_idx: np.argsort(sim)[-k:][::-1] is k different
\* rows of db_vectors, the most similar first, no row left out that is more similar
\* than one taken; among equally similar rows the order is the sort's.
nearest_rows(q, db_vectors) ==
    {idx \in [1..neighbor_count(db_vectors) -> 1..Len(db_vectors)] :
        /\ \A a, b \in 1..neighbor_count(db_vectors) :
              a < b => /\ idx[a] # idx[b]
                       /\ similarity(q, db_vectors[idx[b]])
                             <= similarity(q, db_vectors[idx[a]])
        /\ \A j \in 1..Len(db_vectors) :
              (\A a \in 1..neighbor_count(db_vectors) : idx[a] # j)
                 => \A a \in 1..neighbor_count(db_vectors) :
                       similarity(q, db_vectors[j]) <= similarity(q, db_vectors[idx[a]])}

\* VectorMatcher.match raises ValueError for arrays of different length.
match_raises(db_vectors, db_ids) == Len(db_vectors) # Len(db_ids)

\* search_file's finally clause: cleanup(prepared_wav) when prepared_wav is set.
search_file_exit(q) ==
    [q EXCEPT !.wav = IF q.prepared THEN FALSE ELSE @]

\* search_upload's finally clause removes temp_path; the request ends with out.
search_upload_exit(q, out, reason) ==
    [q EXCEPT !.upload = FALSE, !.pc = "returned", !.out = out, !.reason = reason]

notQuery ==
    <<platVars, storeVars, sessVars, histVars, monVars, apiVars, workerVars, search_pc,
      helix>>

\* search_upload up to the copy of the upload into temp_path; a request without a
\* filename is rejected before.  No follower is running while the request is served.
SearchUpload ==
    /\ query.pc = "none"
    /\ pc \in {"new", "done"}
    /\ searches < MaxSearches
    /\ can_search
    /\ \E named \in BOOLEAN :
          query' = IF named THEN [query EXCEPT !.pc = "saved", !.upload = TRUE]
                   ELSE [query EXCEPT !.pc = "returned", !.out = "SearchInputError",
                                      !.reason = "Uploaded file must have a filename"]
    /\ searches' = searches + 1
    /\ UNCHANGED notQuery

\* os.path.getsize(temp_path) == 0: SearchInputError.
SearchUploadEmpty ==
    /\ query.pc = "saved"
    /\ query' = search_upload_exit(query, "SearchInputError", "Uploaded file is empty")
    /\ UNCHANGED <<notQuery, searches>>

\* QueryPreprocessor.prepare succeeds: ffmpeg returned 0 and wrote the WAV.
SearchPrepare ==
    /\ query.pc = "saved"
    /\ query' = [query EXCEPT !.pc = "prepared", !.wav = TRUE, !.prepared = TRUE]
    /\ UNCHANGED <<notQuery, searches>>

\* QueryPreprocessor.prepare raises RuntimeError: ffmpeg failed, having written an
\* output file or not; or it returned 0 without an output file.
SearchPrepareRaises ==
    /\ query.pc = "saved"
    /\ \E written \in BOOLEAN :
          query' = search_upload_exit(search_file_exit([query EXCEPT !.wav = written]),
                                      "RuntimeError", "ffmpeg failed to preprocess query")
    /\ UNCHANGED <<notQuery, searches>>

\* QueryEmbedder.embed returns; no embeddings end the search.
SearchEmbed ==
    /\ query.pc = "prepared"
    /\ \E clip \in QueryClips :
          query' = IF clip = <<>>
                   THEN search_upload_exit(search_file_exit(query), "not_found",
                                           "No embeddings generated for query clip")
                   ELSE [query EXCEPT !.pc = "embedded",
                                      !.embeddings = query_embed(clip).embeddings,
                                      !.timestamps = query_embed(clip).timestamps]
    /\ UNCHANGED <<notQuery, searches>>

\* QueryEmbedder.embed raises.
SearchEmbedRaises ==
    /\ query.pc = "prepared"
    /\ query' = search_upload_exit(search_file_exit(query), "Exception", "embed failed")
    /\ UNCHANGED <<notQuery, searches>>

\* db_vectors, db_ids = self.store.load_vectors_and_ids(); an empty index ends the search.
SearchLoad ==
    /\ query.pc = "embedded"
    /\ \E r \in {load_vectors_and_ids(vector_file, id_file)} :
          query' = IF r.vectors = <<>> \/ r.ids = <<>>
                   THEN search_upload_exit(
                            search_file_exit([query EXCEPT !.loaded = TRUE]),
                            "not_found", "Vector index is empty")
                   ELSE [query EXCEPT !.pc = "loaded", !.loaded = TRUE,
                                      !.vectors = r.vectors, !.ids = r.ids]
    /\ UNCHANGED <<notQuery, searches>>

\* self.matcher.match: ValueError for misaligned arrays.
SearchMatchRaises ==
    /\ query.pc = "loaded"
    /\ match_raises(query.vectors, query.ids)
    /\ query' = search_upload_exit(search_file_exit(query), "ValueError",
                                   "Vector and fingerprint ID arrays are misaligned")
    /\ UNCHANGED <<notQuery, searches>>

\* self.matcher.match: top_ids = db_ids[top_idx], for each query row the ids at the rows
\* of its nearest vectors.
SearchMatch ==
    /\ query.pc = "loaded"
    /\ ~match_raises(query.vectors, query.ids)
    /\ \E top_idx \in [1..Len(query.embeddings) ->
                          [1..neighbor_count(query.vectors) -> 1..Len(query.vectors)]] :
          /\ \A i \in 1..Len(query.embeddings) :
                top_idx[i] \in nearest_rows(query.embeddings[i], query.vectors)
          /\ query' = [query EXCEPT !.pc = "matched",
                          !.neighbors = [i \in 1..Len(query.embeddings) |->
                                            [a \in 1..neighbor_count(query.vectors) |->
                                                query.ids[top_idx[i][a]]]]]
    /\ UNCHANGED <<notQuery, searches>>

\* store.get_video_with_creator: the Video row, if there is one.
get_video_with_creator(d, video_id) == video_id \in 1..Len(d.videos)

\* search_file from align on: the alignment, the lookup of the video and the result.
search_result(q, d, a) ==
    IF ~a.found \/ a.video_id = Unset
    THEN search_upload_exit(search_file_exit(q), "not_found", a.reason)
    ELSE IF ~get_video_with_creator(d, a.video_id[1])
    THEN search_upload_exit(search_file_exit(q), "not_found",
                            "Aligned video metadata not found")
    ELSE search_upload_exit(search_file_exit(q), "found", a.reason)

\* alignment = self.alignment.align(neighbor_ids, query_timestamps) and the return.
SearchAlign ==
    /\ query.pc = "matched"
    /\ \E a \in {align(query.neighbors, query.timestamps, db.fingerprints)} :
          query' = search_result([query EXCEPT !.aligned = TRUE, !.alignment = a], db, a)
    /\ UNCHANGED <<notQuery, searches>>

\* The ingest side of the process before a search request: IngestSession.run over the
\* follower, process crashes and new followers, and the platform.
IngestStep ==
    /\ query.pc = "none"
    /\ \/ SessionRun
       \/ NextChunk
       \/ NextChunkNone
       \/ LoopExit
       \/ Embed
       \/ StoreFingerprints
       \/ AppendVectors
       \/ SessionStop
       \/ CrashRestart
       \/ CrashInsideAppend
       \/ NewFollower
       \/ PlatformGrow
       \/ PlatformLive

NextSearch ==
    \/ IngestStep
    \/ SearchUpload
    \/ SearchUploadEmpty
    \/ SearchPrepare
    \/ SearchPrepareRaises
    \/ SearchEmbed
    \/ SearchEmbedRaises
    \/ SearchLoad
    \/ SearchMatchRaises
    \/ SearchMatch
    \/ SearchAlign

SpecSearch == Init /\ [][NextSearch]_vars

\* Inputs of align: a fingerprint table, a neighbor matrix of up to MaxQueryRows rows
\* and MaxNeighbors columns over the ids 1..MaxFingerprintId, and up to MaxQueryRows
\* query timestamps of 0..MaxQueryHalf half seconds.
AlignTables ==
    {<<>>, <<<<1, 1>>, <<2, 0>>>>, <<<<1, 0>>, <<1, 1>>, <<2, 1>>>>}

NeighborArrays ==
    UNION {[1..q -> [1..k -> 1..MaxFingerprintId]] :
              q \in 0..MaxQueryRows, k \in 0..MaxNeighbors}

QueryTimestamps == UNION {[1..q -> 0..MaxQueryHalf] : q \in 0..MaxQueryRows}

\* A store holding a Video row per archive and the fingerprint table fps.
db_with(fps) ==
    [EmptyDb EXCEPT !.videos = [v \in Vods |-> [url |-> canonical_vod_url(v),
                                                processed |-> FALSE]],
                    !.fingerprints = fps]

\* A search request that has reached align with the given arguments.
InitAlign ==
    /\ InitPlatformMidStream
    /\ InitProcess
    /\ helix = NoHelix
    /\ \E fps \in AlignTables : db = db_with(fps)
    /\ \E n \in NeighborArrays : \E t \in QueryTimestamps :
          query = [NoQuery EXCEPT !.pc = "matched", !.upload = TRUE, !.wav = TRUE,
                                  !.prepared = TRUE, !.neighbors = n, !.timestamps = t]

SpecAlign == InitAlign /\ [][SearchAlign]_vars

(* ------------------------------------------------------------------ claims *)
Row(v) == db.live_ingest_state[v]

\* A window has been returned by next_chunk() and not been committed since.
window_returned ==
    stage \in {"extracted", "embedded", "stored", "appended", "skipped", "raised"}

\* This step is a call of next_chunk() that finds a pending window.
next_chunk_with_pending ==
    /\ pc = "loop"
    /\ running
    /\ ~src.finished
    /\ src.pending_commit_end_seconds # None
    /\ src' # src
    /\ pc' \in {"loop", "embed", "done"}

C2_CursorWithinSeenDuration ==
    /\ src.ingest_cursor_seconds <= src.last_seen_duration_seconds
    /\ \A v \in Vods :
          Row(v).present =>
              Row(v).last_ingested_seconds <= Row(v).last_seen_duration_seconds

\* After a switch to a second archive a window was committed up to the seen duration.
C2_Witness ==
    /\ Len(db.videos) = 2
    /\ stage = "committed"
    /\ src.vod_platform_id # 0
    /\ src.ingest_cursor_seconds > 0
    /\ src.ingest_cursor_seconds = src.last_seen_duration_seconds
    /\ Row(src.vod_platform_id).last_ingested_seconds = src.ingest_cursor_seconds

\* C3: a next_chunk() that returns (offset c, duration L) leaves the cursor, in memory
\* and persisted, at c; the following next_chunk() call persists c + L for that
\* archive before its refresh (which may switch archives) and before any extraction.
C3_CommitOnFollowingCall ==
    /\ [](window_returned =>
            /\ src.ingest_cursor_seconds = chunk.offset
            /\ src.pending_commit_end_seconds = chunk.offset + chunk.duration
            /\ Row(chunk.vod).present
            /\ Row(chunk.vod).last_ingested_seconds = chunk.offset)
    /\ [][next_chunk_with_pending =>
            /\ commit_pending_progress(src, db).s.ingest_cursor_seconds
                   = chunk.offset + chunk.duration
            /\ db'.live_ingest_state[chunk.vod].last_ingested_seconds
                   = chunk.offset + chunk.duration]_vars

\* The call that committed a window also switched to another archive.
C3_Witness ==
    /\ stage = "committed"
    /\ chunk.duration >= 1
    /\ src.vod_platform_id \notin {0, chunk.vod}
    /\ Row(chunk.vod).last_ingested_seconds = chunk.offset + chunk.duration

\* Every timestamp the embedder produced for the last window has a fingerprint row
\* and a vector in the vectors file, and the row's id is in the ids file.
window_persisted ==
    \A j \in 1..Len(timestamps) :
        LET i == fingerprint_id(db.fingerprints, src.video_id, timestamps[j])
        IN /\ i # 0
           /\ \E k \in 1..Len(id_file) : id_file[k] = i
           /\ \E k \in 1..Len(vector_file) :
                 vector_file[k] = <<src.video_id, timestamps[j]>>

\* C4: when next_chunk() is called again (the only place a window is committed) the
\* calls store_fingerprints and append_vectors for the pending window have completed;
\* a window whose embed, store_fingerprints or append_vectors raised stays uncommitted.
C4_PersistedBeforeCommit ==
    /\ (pc = "loop" /\ src.pending_commit_end_seconds # None) =>
          /\ stage \in {"appended", "skipped"}
          /\ window_persisted
    /\ stage = "raised" =>
          /\ pc = "done"
          /\ src.ingest_cursor_seconds = chunk.offset
          /\ Row(chunk.vod).last_ingested_seconds = chunk.offset

\* A window of at least one second is about to be committed.
C4_Witness ==
    /\ pc = "loop"
    /\ running
    /\ src.pending_commit_end_seconds # None
    /\ stage = "appended"
    /\ Len(timestamps) >= 1

\* C5: the first chunk of a new follower starts at the persisted last_ingested_seconds
\* of its archive, which is at least the offset of the chunk returned last for it.
C5_ResumeAtPersistedCursor ==
    (pc = "embed" /\ first_chunk = "this") =>
        /\ Row(chunk.vod).present
        /\ chunk.offset = Row(chunk.vod).last_ingested_seconds
        /\ chunk.offset >= chunk.prev

\* After a crash the new follower extracts the uncommitted window [1, 2) again.
C5_Witness ==
    /\ restarts = 1
    /\ pc = "embed"
    /\ first_chunk = "this"
    /\ chunk.prev = 1
    /\ chunk.offset = 1

\* Second t of the video has a fingerprint row and a vector record with that row's id.
ingested(video_id, t) ==
    LET i == fingerprint_id(db.fingerprints, video_id, t)
    IN /\ i # 0
       /\ \E k \in 1..Min(Len(vector_file), Len(id_file)) :
             /\ id_file[k] = i
             /\ vector_file[k] = <<video_id, t>>

\* C6: provided the embedder returned one timestamp per second of every chunk and no
\* crash happened inside append_vectors, every second below a persisted cursor has a
\* fingerprint row and at least one vector record carrying that row's id.
C6_CursorBoundsIngested ==
    assumed =>
        \A v \in Vods :
            Row(v).present =>
                \A t \in 0..(Row(v).last_ingested_seconds - 1) :
                    ingested(Row(v).video_id, t)

\* Two seconds are committed and a window was appended twice (a restart).
C6_Witness ==
    /\ assumed
    /\ restarts = 1
    /\ \E v \in Vods : Row(v).present /\ Row(v).last_ingested_seconds = 2
    /\ Len(vector_file) > Len(db.fingerprints)

\* C7: while the last liveness poll reported live, every chunk returned ends at or
\* before D - lag_seconds, D the duration the platform reported last.
C7_ChunkBehindLag ==
    (pc = "embed" /\ src.last_is_live = "True") =>
        chunk.offset + chunk.duration <= reported - lag_seconds

\* C8: at any time at most one worker thread of the supervisor is alive, hence at most
\* one follower is active, whatever the interleaving of start(), stop() and workers.
C8_AtMostOneWorker ==
    Cardinality({w \in Workers : is_alive(w)}) <= 1

\* C9: no search reads the vector files while an ingest session is running or is
\* appending to them.
C9_NoReadDuringIngest ==
    search_pc = "loading" => \A w \in Workers : w_pc[w] \notin InRun

\* C10: once stop() has returned True the status is idle and stays so until the next
\* start(): no worker changes state, streamer or last_error, no session runs.
C10_IdleAfterStop ==
    stopped =>
        /\ status = IdleStatus
        /\ \A w \in Workers : w_pc[w] \notin InRun

\* C11: run() has called source.stop() on every exit path: whenever run() has ended
\* (the source finished, a stop request, or an exception of start(), next_chunk(), the
\* embedder or a store call) the source is finished.
C11_SourceStoppedOnExit ==
    pc = "done" => src.finished

\* C12: once stop() has called IngestSession.stop() on the session the worker published
\* (stop() is then waiting in join), run() of that session exits at its next loop check:
\* at the loop test the session's _running flag is false, so no next_chunk() follows.
C12_StopEndsRunAtLoopCheck ==
    (api.pc = "join" /\ api.session # NoSession) =>
        \A w \in Workers :
            (api.session = <<w, w_session[w]>> /\ w_pc[w] = "loop") => ~w_running[w]

\* The platform reports the stream offline and archive v as the latest, d seconds long.
offline_archive(v, d) == ~plat_live /\ plat_vod = v /\ plat_dur[v] = d

\* The follower has finalized archive v with the cursor at d.
finalized_at(v, d) ==
    /\ src.finished
    /\ src.vod_platform_id = v
    /\ src.video_id \in 1..Len(db.videos)
    /\ db.videos[src.video_id].processed
    /\ src.ingest_cursor_seconds = d

\* C13: if from some point on, the follower unfinished and following archive v, the
\* platform keeps reporting the stream offline and archive v with the same duration d,
\* then the next_chunk() calls eventually finish the follower, the Video row processed
\* and the cursor at d.
C13_EventuallyFinalized ==
    \A v \in Vods : \A d \in 0..MaxDuration :
        []((~src.finished /\ src.vod_platform_id = v /\ []offline_archive(v, d))
              => <>finalized_at(v, d))

\* C14: FINISHED is absorbing: a finished source (finalized or stopped) stays finished,
\* and a later next_chunk() refreshes nothing, commits no pending window and changes
\* neither the cursor nor the persisted LiveIngestState: the object and the store stay
\* as they are.
C14_FinishedIsAbsorbing ==
    [][(src.finished /\ restarts' = restarts) =>
          /\ src'.finished
          /\ src' = src
          /\ db' = db]_vars

\* next_chunk() was called on a source that was stopped with a window still pending.
C14_Witness ==
    /\ refused
    /\ src.finished
    /\ src.pending_commit_end_seconds # None
    /\ Row(src.vod_platform_id).last_ingested_seconds = src.ingest_cursor_seconds

\* C15: a start() call made while a worker thread is running spawns no second worker
\* and leaves the supervisor's status as it is.
C15_StartWhileRunningChangesNothing ==
    [][((Start \/ StartWhileRunning) /\ \E w \in Workers : is_alive(w)) =>
          /\ spawned' = spawned
          /\ status' = status]_vars

C17_SearchGate ==
    /\ [](can_search <=> status.state \notin {"polling", "ingesting", "error"})
    /\ [][(/\ search_pc \in {"none", "busy"}
           /\ <<search_pc, searches>>' # <<search_pc, searches>>
           /\ status.state \in {"polling", "ingesting", "error"})
             => (search_pc' = "busy" /\ searches' = searches + 1)]_vars

\* A search request was rejected while a session was ingesting.
C17_Witness ==
    /\ search_pc = "busy"
    /\ searches = 1
    /\ status.state = "ingesting"

\* C18: store_fingerprints returns one id per input timestamp, in input order, each the
\* id of the row of that (video_id, timestamp); calling it again with the same inputs
\* returns the same list and inserts nothing; the table never holds two rows with the
\* same (video_id, timestamp_seconds).
C18_StoreFingerprintsIdempotent ==
    /\ Len(ids) = Len(timestamps)
    /\ \A j \in 1..Len(timestamps) :
          /\ ids[j] \in 1..Len(db.fingerprints)
          /\ db.fingerprints[ids[j]] = <<src.video_id, timestamps[j]>>
    /\ store_fingerprints(db, src.video_id, timestamps) = [d |-> db, ids |-> ids]
    /\ \A i, j \in 1..Len(db.fingerprints) :
          i # j => db.fingerprints[i] # db.fingerprints[j]

\* A call returned, in input order, the ids of two rows that earlier calls had inserted
\* in the opposite order.
C18_Witness ==
    /\ Len(timestamps) = 2
    /\ timestamps[1] # timestamps[2]
    /\ ids[1] > ids[2]
    /\ Len(db.fingerprints) >= 3

\* C19: within one follower run, a chunk next_chunk() returns starts where the chunk
\* the run returned before for the same archive ended (offset = previous offset +
\* previous duration), also when the run followed another archive in between; so the
\* fingerprint rows of one video_id carry strictly increasing timestamps in the order
\* of their insertion.
C19_ChunksContiguous ==
    /\ [][(pc = "loop" /\ pc' = "embed" /\ last_end[chunk'.vod] # None)
             => chunk'.offset = last_end[chunk'.vod]]_vars
    /\ [](\A i, j \in 1..Len(db.fingerprints) :
             (i < j /\ db.fingerprints[i][1] = db.fingerprints[j][1])
                => db.fingerprints[i][2] < db.fingerprints[j][2])

\* The follower came back to an archive it had left and returned the chunk that
\* continues it, after it stored fingerprints for both archives.
C19_Witness ==
    /\ came_back
    /\ pc = "embed"
    /\ chunk.offset > 0
    /\ chunk.prev # None
    /\ chunk.offset = chunk.prev + chunk_seconds
    /\ \A v \in Vods : \E i \in 1..Len(db.fingerprints) :
          db.fingerprints[i][1] = Row(v).video_id

\* C20: append_vectors extends the vectors file and the ids file together, also when
\* the process crashes inside it: at every moment the two files have the same number
\* of rows and row i of the vectors file is the vector of fingerprint id_file[i].
C20_AppendAtomic ==
    /\ Len(vector_file) = Len(id_file)
    /\ \A i \in 1..Len(vector_file) :
          /\ id_file[i] \in 1..Len(db.fingerprints)
          /\ db.fingerprints[id_file[i]] = vector_file[i]

\* C21: no fingerprint row ever has more than one vector record carrying its id, over
\* ingest windows, stop and start cycles and restarted followers of the same archive.
C21_OneVectorPerFingerprint ==
    \A f \in 1..Len(db.fingerprints) :
        Cardinality({i \in 1..Len(id_file) : id_file[i] = f}) <= 1

\* C22: when the vectors file and the ids file have different row counts,
\* load_vectors_and_ids() fails (it returns nothing to the search), and no search
\* ends with a result computed from files of different length.
C22_LoadRejectsMisaligned ==
    (query.loaded /\ Len(vector_file) # Len(id_file)) =>
        /\ query.vectors = <<>>
        /\ query.ids = <<>>
        /\ query.out \notin {"none", "not_found", "found"}

\* C23: with one follower at a time, no two Video rows carry the same URL; a switch to
\* an archive whose URL has a row takes that row's id and sets processed = false
\* without a new row, and a switch creates a row only for a URL that has none.
C23_OneVideoPerUrl ==
    /\ [](\A i, j \in 1..Len(db.videos) : db.videos[i].url = db.videos[j].url => i = j)
    /\ [][(src'.vod_platform_id # src.vod_platform_id /\ src'.vod_platform_id # 0)
            => IF get_video_by_url(db, canonical_vod_url(src'.vod_platform_id)) # 0
               THEN /\ src'.video_id =
                         get_video_by_url(db, canonical_vod_url(src'.vod_platform_id))
                    /\ Len(db'.videos) = Len(db.videos)
                    /\ ~db'.videos[src'.video_id].processed
               ELSE /\ Len(db'.videos) = Len(db.videos) + 1
                    /\ src'.video_id = Len(db'.videos)
                    /\ db'.videos[src'.video_id] =
                         [url |-> canonical_vod_url(src'.vod_platform_id),
                          processed |-> FALSE]]_vars
    /\ [][Len(db'.videos) # Len(db.videos)
            => src'.vod_platform_id \notin {0, src.vod_platform_id}]_vars

\* A second follower has switched to the archive the first one ingested to its end: it
\* took over the one Video row of that archive, which is unprocessed again.
C23_Witness ==
    /\ restarts = 1
    /\ pc = "loop"
    /\ src.vod_platform_id = 1
    /\ src.video_id = 1
    /\ Len(db.videos) = 1
    /\ ~db.videos[1].processed
    /\ Row(1).last_ingested_seconds = MaxDuration

\* C24: for Q query timestamps and a neighbor array of Q rows, align returns found
\* exactly when the largest bucket count v, each resolved neighbor (i, j) voting once
\* for (video_id, round(db_timestamp - query_timestamps[i])), reaches min_vote_count
\* and v / Q reaches min_vote_ratio; when found, video_id and timestamp_seconds name a
\* bucket with v votes and the score is v / Q.
C24_AlignAdmission ==
    (query.aligned /\ Len(query.neighbors) = Len(query.timestamps)) =>
        LET fps == db.fingerprints
            n == query.neighbors
            hits == {ij \in (1..Len(n)) \X (1..MaxNeighbors) :
                        /\ ij[2] <= Len(n[ij[1]])
                        /\ resolves(fps, n[ij[1]][ij[2]])}
            bucket(ij) == <<fps[n[ij[1]][ij[2]]][1],
                            round_offset(fps[n[ij[1]][ij[2]]][2],
                                         query.timestamps[ij[1]])>>
            count(key) == Cardinality({ij \in hits : bucket(ij) = key})
            keys == {bucket(ij) : ij \in hits}
            v == IF keys = {} THEN 0
                 ELSE CHOOSE c \in {count(key) : key \in keys} :
                         \A key \in keys : count(key) <= c
            Q == Len(query.timestamps)
            a == query.alignment
        IN /\ a.found <=> (/\ v >= min_vote_count
                           /\ v * min_vote_ratio_den >= min_vote_ratio_num * Q)
           /\ a.found => /\ <<a.video_id[1], a.timestamp_seconds[1]>> \in keys
                         /\ count(<<a.video_id[1], a.timestamp_seconds[1]>>) = v
                         /\ a.score = Some(<<v, Q>>)

\* align accepted a bucket with two votes out of two query rows although another
\* bucket had votes too, one timestamp being a tie that rounds to the even second.
C24_Witness ==
    /\ query.aligned
    /\ query.alignment.found
    /\ query.alignment.score = Some(<<2, 2>>)
    /\ Len(query.neighbors) = 2
    /\ Len(query.neighbors[1]) = 2
    /\ query.neighbors[1][1] # query.neighbors[1][2]
    /\ \E i \in 1..2 : query.timestamps[i] = 1

\* C25: for an empty neighbor array, no query timestamps, different row counts, ids
\* none of which resolves, or a best bucket below a threshold, align returns
\* found = false with a reason and without video_id, timestamp_seconds and score; an
\* id that does not resolve casts no vote and changes no bucket of the other ids.
C25_AlignRejectsMalformed ==
    query.aligned =>
        LET fps == db.fingerprints
            n == query.neighbors
            a == query.alignment
            shaped == Len(n) = Len(query.timestamps)
            hits == {ij \in (1..Len(n)) \X (1..MaxNeighbors) :
                        /\ ij[2] <= Len(n[ij[1]])
                        /\ resolves(fps, n[ij[1]][ij[2]])}
            bucket(ij) == <<fps[n[ij[1]][ij[2]]][1],
                            round_offset(fps[n[ij[1]][ij[2]]][2],
                                         query.timestamps[ij[1]])>>
            votes == IF shaped THEN count_votes(n, query.timestamps, fps, 1, 1, <<>>)
                     ELSE <<>>
            weak == \A k \in 1..Len(votes) :
                       \/ votes[k].n < min_vote_count
                       \/ votes[k].n * min_vote_ratio_den
                             < min_vote_ratio_num * Len(query.timestamps)
        IN /\ (\/ array_size(n) = 0
               \/ query.timestamps = <<>>
               \/ ~shaped
               \/ hits = {}
               \/ weak)
                 => /\ ~a.found
                    /\ a.reason # ""
                    /\ a.video_id = Unset
                    /\ a.timestamp_seconds = Unset
                    /\ a.score = Unset
           /\ shaped =>
                 /\ \A k \in 1..Len(votes) :
                       votes[k].n = Cardinality({ij \in hits : bucket(ij) = votes[k].key})
                 /\ \A ij \in hits : \E k \in 1..Len(votes) : votes[k].key = bucket(ij)

\* align skipped an id without a row and still accepted the bucket of the others.
C25_Witness ==
    /\ query.aligned
    /\ query.alignment.found
    /\ \E i \in 1..Len(query.neighbors) : \E j \in 1..Len(query.neighbors[i]) :
          ~resolves(db.fingerprints, query.neighbors[i][j])

\* C26: once search_upload has returned or raised after the gate check, the uploaded
\* temp file and the prepared WAV of the request are gone from the disk.
C26_SearchLeavesNoFiles ==
    query.pc = "returned" => (~query.upload /\ ~query.wav)

\* The number a decimal numeral denotes, digit by digit from the left.
RECURSIVE DecimalValue(_, _)
DecimalValue(numeral, acc) ==
    IF numeral = <<>> THEN acc
    ELSE DecimalValue(Tail(numeral),
                      10 * acc + CHOOSE d \in 0..9 : DigitChars[d + 1] = Head(numeral))

\* Is seg empty or a numeral followed by unit, and the number of units it names.
IsComponent(seg, unit) ==
    \/ seg = <<>>
    \/ /\ Len(seg) >= 2
       /\ seg[Len(seg)] = unit
       /\ \A i \in 1..(Len(seg) - 1) : \E d \in 1..10 : DigitChars[d] = seg[i]

ComponentValue(seg) ==
    IF seg = <<>> THEN 0 ELSE DecimalValue(SubSeq(seg, 1, Len(seg) - 1), 0)

\* C27: a duration string made of an optional "<H>h", an optional "<M>m" and an
\* optional "<S>s", in this order, parses to 3600 * H + 60 * M + S, and the empty
\* string to 0; "1h2m3s" gives 3723, "45m" gives 2700 and "59s" gives 59.
C27_ParseDuration ==
    /\ parse_duration_to_seconds(<<"1", "h", "2", "m", "3", "s">>) = 3723
    /\ parse_duration_to_seconds(<<"4", "5", "m">>) = 2700
    /\ parse_duration_to_seconds(<<"5", "9", "s">>) = 59
    /\ parse_duration_to_seconds(<<>>) = 0
    /\ helix.pc = "parsed" =>
          \A a \in 0..Len(helix.text) : \A b \in a..Len(helix.text) :
              LET hours == SubSeq(helix.text, 1, a)
                  minutes == SubSeq(helix.text, a + 1, b)
                  seconds == SubSeq(helix.text, b + 1, Len(helix.text))
              IN (/\ IsComponent(hours, "h")
                  /\ IsComponent(minutes, "m")
                  /\ IsComponent(seconds, "s"))
                    => helix.seconds = 3600 * ComponentValue(hours)
                                         + 60 * ComponentValue(minutes)
                                         + ComponentValue(seconds)

\* A string of all three components has been parsed.
C27_Witness ==
    /\ helix.pc = "parsed"
    /\ helix.text = <<"1", "h", "2", "m", "1", "s">>
    /\ helix.seconds = 3721

\* C28: get_latest_archive_vod returns none when the platform lists no archive, and
\* otherwise a listed archive that none of the others was created after, with the URL
\* https://www.twitch.tv/videos/<id> and duration_seconds parsed from its duration.
C28_LatestArchive ==
    helix.pc = "returned" =>
        IF helix.rows = <<>> THEN helix.latest = <<>>
        ELSE /\ Len(helix.latest) = 1
             /\ \E k \in 1..Len(helix.rows) :
                   /\ helix.latest[1].id = helix.rows[k].id
                   /\ helix.latest[1].created_at = helix.rows[k].created_at
                   /\ helix.latest[1].duration = helix.rows[k].duration
                   /\ \A m \in 1..Len(helix.rows) :
                         \/ helix.rows[m].created_at[1] < helix.rows[k].created_at[1]
                         \/ /\ helix.rows[m].created_at[1] = helix.rows[k].created_at[1]
                            /\ helix.rows[m].created_at[2] <= helix.rows[k].created_at[2]
             /\ helix.latest[1].url = <<"https://www.twitch.tv/videos/", helix.latest[1].id>>
             /\ helix.latest[1].duration_seconds =
                   IF helix.latest[1].duration = <<>> THEN 0
                   ELSE IF Len(helix.latest[1].duration) = 6 THEN 3600
                   ELSE 130

\* Of two archives created at 10:00 and at 12:00 of the same day, listed in this
\* order, the second was returned.
C28_Witness ==
    /\ helix.pc = "returned"
    /\ Len(helix.rows) = 2
    /\ helix.rows[1] = [id |-> 1, created_at |-> <<1, 10>>,
                        duration |-> <<"1", "h", "0", "m", "0", "s">>]
    /\ helix.rows[2].id = 2
    /\ helix.rows[2].created_at = <<1, 12>>
    /\ helix.latest # <<>>
    /\ helix.latest[1].id = 2

\* C29: the supervisor's state changes only along the transition table: idle to
\* polling by start(); polling to ingesting by a worker whose liveness check returned
\* true; polling to error by a liveness check that raised; ingesting to polling by
\* a session that returned; ingesting to error by a session that raised; error to
\* polling by the worker's next check; and to idle only by stop() and the exit of the
\* worker it stopped.
C29_TransitionTable ==
    [][status'.state # status.state =>
         \/ /\ status.state = "idle"
            /\ status'.state = "polling"
            /\ Start
         \/ /\ status.state = "polling"
            /\ status'.state = "ingesting"
            /\ \E w \in Workers : WorkerPublish(w)
         \/ /\ status.state = "polling"
            /\ status'.state = "error"
            /\ \E w \in Workers : WorkerPollRaises(w)
         \/ /\ status.state = "ingesting"
            /\ status'.state = "polling"
            /\ \E w \in Workers : WorkerRunReturned(w)
         \/ /\ status.state = "ingesting"
            /\ status'.state = "error"
            /\ \E w \in Workers : WorkerRunRaised(w)
         \/ /\ status.state = "error"
            /\ status'.state = "polling"
            /\ \E w \in Workers : WorkerPoll(w)
         \/ /\ status'.state = "idle"
            /\ (StopNotRunning \/ StopJoin \/ \E w \in Workers : WorkerExit(w))]_vars

\* A call of next_chunk() that finalizes: the follower of an archive becomes finished
\* and its Video row processed.
finalizing ==
    /\ NextChunkNone
    /\ ~src.finished
    /\ src'.finished
    /\ src'.vod_platform_id # 0
    /\ src'.video_id \in 1..Len(db'.videos)
    /\ db'.videos[src'.video_id].processed

\* C30: the follower finalizes (Video processed, follower finished) only after at least
\* finalize_checks refreshes in a row that each reported the streamer not live and no
\* duration growth, none in between reporting live, and only when safe_end <= cursor.
C30_FinalizeAfterQuietRefreshes ==
    [][finalizing => /\ quiet_refreshes' >= finalize_checks
                     /\ safe_end(src') <= src'.ingest_cursor_seconds]_vars

\* A step in which the follower switches to another archive (_switch_to_vod).
switching ==
    /\ src'.vod_platform_id # 0
    /\ src'.vod_platform_id # src.vod_platform_id

\* C31: a refresh that sees another archive than the one followed adopts the cursor and
\* the duration seen from the archive's persisted row if there is one, and else sets
\* both to zero, before the duration the platform reports is applied.
C31_SwitchAdoptsOrZeroes ==
    [][switching =>
         /\ src'.ingest_cursor_seconds =
               IF db.live_ingest_state[src'.vod_platform_id].present
               THEN db.live_ingest_state[src'.vod_platform_id].last_ingested_seconds
               ELSE 0
         /\ src'.last_seen_duration_seconds =
               Max(IF db.live_ingest_state[src'.vod_platform_id].present
                   THEN db.live_ingest_state[src'.vod_platform_id].last_seen_duration_seconds
                   ELSE 0,
                   latest_duration)]_vars

\* C32: one extraction runs the extractor at most twice; after the first failure the
\* cached URL is dropped and resolved again once and the extraction retried once; when
\* the extraction raises, no window is pending, the follower's cursor is where the commit
\* of the window before left it, and the persisted cursor of an archive only ever moves
\* to the end of a window that next_chunk() returned.
C32_ExtractionRetriedOnce ==
    [][/\ NextChunkExtract =>
             /\ extraction'.attempts <= 2
             /\ extraction'.attempts = 2 => extraction'.reresolves = 1
             /\ extraction'.reresolves <= 1
             /\ extraction'.raised =>
                   /\ pc' = "done"
                   /\ src'.pending_commit_end_seconds = None
                   /\ src'.ingest_cursor_seconds =
                         IF src.pending_commit_end_seconds # None
                         THEN src.pending_commit_end_seconds
                         ELSE src.ingest_cursor_seconds
       /\ \A v \in Vods :
             db'.live_ingest_state[v].last_ingested_seconds
                   # db.live_ingest_state[v].last_ingested_seconds
                => db'.live_ingest_state[v].last_ingested_seconds = last_end[v]]_vars

\* C32: the second run of the extractor has failed and next_chunk() has raised.
C32_Witness ==
    /\ extraction.raised
    /\ extraction.attempts = 2
    /\ extraction.reresolves = 1
    /\ pc = "done"
    /\ src.pending_commit_end_seconds = None
    /\ src.ingest_cursor_seconds > 0

\* C33: a call of next_chunk() on an unfinished follower that finds safe_end > cursor
\* returns a chunk at the cursor of duration min(chunk_seconds, safe_end - cursor), so
\* that 1 <= duration <= chunk_seconds and offset + duration <= safe_end; one that finds
\* safe_end <= cursor returns none and extracts nothing.
C33_WindowAtCursor ==
    [][(NextChunk \/ NextChunkNone) =>
         IF safe_end(src') > src'.ingest_cursor_seconds
         THEN /\ pc' = "embed"
              /\ chunk'.vod = src'.vod_platform_id
              /\ chunk'.offset = src'.ingest_cursor_seconds
              /\ chunk'.duration = Min(chunk_seconds,
                                       safe_end(src') - src'.ingest_cursor_seconds)
              /\ 1 <= chunk'.duration
              /\ chunk'.duration <= chunk_seconds
              /\ chunk'.offset + chunk'.duration <= safe_end(src')
              /\ src'.pending_commit_end_seconds = chunk'.offset + chunk'.duration
         ELSE /\ pc' # "embed"
              /\ chunk' = chunk
              /\ src'.pending_commit_end_seconds = None]_vars

\* C33: a window cut short at safe_end was returned from a cursor that had moved.
C33_Witness ==
    /\ pc = "embed"
    /\ chunk.offset = chunk_seconds
    /\ chunk.offset = src.ingest_cursor_seconds
    /\ chunk.duration = 1
    /\ chunk.duration < chunk_seconds
    /\ chunk.offset + chunk.duration = safe_end(src)

\* C34: the worker thread that is running when stop() is called eventually terminates,
\* whatever calls of start() and stop() follow, given that threads are scheduled and
\* blocking calls return.
C34_StoppedWorkerTerminates ==
    \A w \in Workers :
        (api.pc = "session" /\ api.thread = w /\ is_alive(w)) ~> ~is_alive(w)

\* C35: when several (video_id, offset) buckets have the highest vote count, align
\* selects the one whose first vote comes first in the row-major order of neighbor_ids.
C35_FirstSeenWins ==
    (query.aligned /\ query.alignment.found) =>
        LET fps == db.fingerprints
            n == query.neighbors
            hits == {ij \in (1..Len(n)) \X (1..MaxNeighbors) :
                        /\ ij[2] <= Len(n[ij[1]])
                        /\ resolves(fps, n[ij[1]][ij[2]])}
            bucket(ij) == <<fps[n[ij[1]][ij[2]]][1],
                            round_offset(fps[n[ij[1]][ij[2]]][2],
                                         query.timestamps[ij[1]])>>
            count(key) == Cardinality({ij \in hits : bucket(ij) = key})
            position(ij) == (ij[1] - 1) * MaxNeighbors + ij[2]
            best == {ij \in hits : \A kl \in hits : count(bucket(kl)) <= count(bucket(ij))}
            first == CHOOSE ij \in best : \A kl \in best : position(ij) <= position(kl)
        IN <<query.alignment.video_id[1], query.alignment.timestamp_seconds[1]>>
              = bucket(first)

\* C35: align accepted one of two buckets with two votes each, and the one it selected
\* is the one of the later archive, whose first vote came first.
C35_Witness ==
    /\ query.aligned
    /\ query.alignment.found
    /\ query.alignment.score = Some(<<2, 2>>)
    /\ query.alignment.video_id = Some(2)
    /\ Len(query.neighbors) = 2
    /\ query.neighbors[1] = <<2, 1>>
    /\ query.neighbors[2] = <<2, 1>>
    /\ query.timestamps = <<0, 0>>
    /\ db.fingerprints = <<<<1, 1>>, <<2, 0>>>>

\* C36: if from some point on the platform reports the streamer offline and lists no
\* archive, the follower eventually becomes finished, also when it is following an
\* archive at that point.
C36_FinishesWithoutArchive ==
    []((~src.finished /\ [](~plat_live /\ plat_vod = 0)) => <>src.finished)

\* C37: when a follower run has ended by finalization, every archive the run adopted,
\* those it switched away from included, has its Video row processed and its persisted
\* cursor at the duration seen last.
C37_AllAdoptedProcessed ==
    (/\ src.finished
     /\ src.video_id \in 1..Len(db.videos)
     /\ db.videos[src.video_id].processed)
        => \A v \in Vods :
              Row(v).present =>
                  /\ db.videos[Row(v).video_id].processed
                  /\ Row(v).last_ingested_seconds = Row(v).last_seen_duration_seconds

\* C38: a Video becomes processed only in a finalizing call of next_chunk(), it is the
\* Video of the archive followed, and at that moment the persisted cursor of the archive
\* equals the persisted duration seen last and no window is pending.
C38_ProcessedOnlyWhenCommitted ==
    [][(\E i \in 1..Len(db.videos) : ~db.videos[i].processed /\ db'.videos[i].processed)
          => /\ finalizing
             /\ \A i \in 1..Len(db.videos) :
                   (~db.videos[i].processed /\ db'.videos[i].processed)
                      => i = src'.video_id
             /\ db'.live_ingest_state[src'.vod_platform_id].present
             /\ db'.live_ingest_state[src'.vod_platform_id].video_id = src'.video_id
             /\ db'.live_ingest_state[src'.vod_platform_id].last_ingested_seconds
                   = db'.live_ingest_state[src'.vod_platform_id].last_seen_duration_seconds
             /\ src'.pending_commit_end_seconds = None]_vars

\* C38: a follower has finalized an archive of MaxDuration seconds in the call that
\* committed its last window.
C38_Witness ==
    /\ src.finished
    /\ stage = "committed"
    /\ src.video_id \in 1..Len(db.videos)
    /\ db.videos[src.video_id].processed
    /\ src.pending_commit_end_seconds = None
    /\ Row(src.vod_platform_id).last_ingested_seconds = MaxDuration
    /\ Row(src.vod_platform_id).last_seen_duration_seconds = MaxDuration

\* C39: in a search over a vector store built by ingest, no query second (row of
\* neighbor_ids) votes twice for the same (video_id, offset) bucket, and the score v / Q
\* of an accepted alignment satisfies 0 < v <= Q.
C39_OneVotePerQuerySecond ==
    query.aligned =>
        /\ \A i \in 1..Len(query.neighbors) :
              \A a, b \in 1..Len(query.neighbors[i]) :
                 (/\ a < b
                  /\ Len(query.neighbors) = Len(query.timestamps)
                  /\ resolves(db.fingerprints, query.neighbors[i][a])
                  /\ resolves(db.fingerprints, query.neighbors[i][b]))
                    => <<db.fingerprints[query.neighbors[i][a]][1],
                         round_offset(db.fingerprints[query.neighbors[i][a]][2],
                                      query.timestamps[i])>>
                       # <<db.fingerprints[query.neighbors[i][b]][1],
                           round_offset(db.fingerprints[query.neighbors[i][b]][2],
                                        query.timestamps[i])>>
        /\ query.alignment.found =>
              /\ 0 < query.alignment.score[1][1]
              /\ query.alignment.score[1][1] <= query.alignment.score[1][2]

\* C40: a commit advances the persisted cursor of an archive only by the window pending,
\* which was extracted from that archive; after a step that switches archives no window
\* of the archive left is pending.
C40_CommitToOwnArchive ==
    [][/\ \A v \in Vods :
             db'.live_ingest_state[v].last_ingested_seconds
                   # db.live_ingest_state[v].last_ingested_seconds
                => /\ src.vod_platform_id = v
                   /\ chunk.vod = v
                   /\ src.pending_commit_end_seconds = chunk.offset + chunk.duration
                   /\ db'.live_ingest_state[v].last_ingested_seconds
                         = chunk.offset + chunk.duration
       /\ switching =>
             \/ src'.pending_commit_end_seconds = None
             \/ /\ pc' = "embed"
                /\ chunk'.vod = src'.vod_platform_id
                /\ src'.pending_commit_end_seconds = chunk'.offset + chunk'.duration]_vars

\* C40: the follower has switched to another archive in a call that first committed the
\* window pending to the row of the archive it was extracted from; the cursor of the new
\* archive is at 0.
C40_Witness ==
    /\ stage = "committed"
    /\ src.vod_platform_id # 0
    /\ chunk.vod # 0
    /\ chunk.vod # src.vod_platform_id
    /\ Row(chunk.vod).last_ingested_seconds = chunk.offset + chunk.duration
    /\ Row(src.vod_platform_id).present
    /\ Row(src.vod_platform_id).last_ingested_seconds = 0
    /\ src.pending_commit_end_seconds = None

====
